---- MODULE Spec2Model ----
(***************************************************************************)
(* costrouter: provider selection and execution gateway.                   *)
(*                                                                         *)
(* Router.ts            candidate resolution, cost classification, choice  *)
(* PriceData.ts         pricing lookup                                     *)
(* UnifiedExecutor      provider instance cache, execution, translation    *)
(*                                                                         *)
(* Optional values (a field that may be undefined) are sets with at most   *)
(* one element: {} is undefined, {v} is the value v.                       *)
(***************************************************************************)
EXTENDS Integers, Sequences, FiniteSets, TLC

(* ------------------------------ bounds -------------------------------- *)

\* largest cost value of a pricing field
MaxCost == 2
\* longest candidate list handed to the selection policy
MaxCand == 2
\* resolution of the random source: Math.random() yields k / RandSteps
RandSteps == 4
\* providers in a catalog and models per provider (resolver inputs)
MaxProviders == 2
MaxModels == 2
\* concurrent callers of the provider instance cache
MaxCallers == 2
\* largest `n` of a request body
MaxN == 3
\* text fragments a backend stream yields at most
MaxFrags == 2
\* provider instances constructed in one run
MaxHandles == 3

\* the clock runs from 0 to MaxTime, in units of five minutes
MaxTime == 4

\* the longest lifetime the token endpoint gives a bearer token, same units
MaxTTL == 3

(* --------------------------- optional values -------------------------- *)

None == {}

Some(v) == {v}

Val(o) == CHOOSE v \in o : TRUE

(* ------------------------------ data model ---------------------------- *)

Costs == 0 .. MaxCost

OptCost == {None} \cup {Some(c) : c \in Costs}

\* costPerRequest plays no part in the paid ordering: three values suffice
OptRequestCost == {None, Some(0), Some(1)}

Pricings ==
  [inputCostPerMillionTokens : OptCost,
   outputCostPerMillionTokens : OptCost,
   costPerRequest : OptRequestCost]

OptPricing == {None} \cup {Some(p) : p \in Pricings}

\* model names; the empty string is a string a configuration can hold
Slugs == {"m1", "m2"}

OptSlug == {None, Some("")} \cup {Some(s) : s \in Slugs}

\* Model without pricing, as the resolver sees it
PlainModels ==
  [canonical_slug : Slugs, exposed_slug : OptSlug, pricing : {None}]

\* provider ids by catalog position
ProviderIds == <<"p1", "p2", "p3", "p4", "p5">>

\* a candidate whose model carries the given pricing
CandidateOf(i, pricing) ==
  LET model == [canonical_slug |-> "m1", exposed_slug |-> None, pricing |-> pricing]
  IN [provider |-> [id |-> ProviderIds[i], type |-> "openai", apiKey |-> "k1",
                    models |-> <<model>>],
      model |-> model]

(* ------------------------------ PriceData ----------------------------- *)

\* PriceData.getPriceWithOverride: `if (model.pricing) return model.pricing`
getPriceWithOverride(model) == model.pricing

(* ------------------------------- Router ------------------------------- *)

\* `a || b` on strings: an undefined or empty left operand yields b
OrElse(o, fallback) == IF o # None /\ Val(o) # "" THEN Val(o) ELSE fallback

modelIdentifier(model) == OrElse(model.exposed_slug, model.canonical_slug)

\* the matches contributed by one provider, in the order of provider.models
RECURSIVE matchesOfProvider(_, _, _)
matchesOfProvider(provider, modelname, i) ==
  IF i > Len(provider.models) THEN <<>>
  ELSE (IF modelIdentifier(provider.models[i]) = modelname
          THEN << [provider |-> provider, model |-> provider.models[i]] >>
          ELSE <<>>)
       \o matchesOfProvider(provider, modelname, i + 1)

RECURSIVE matchesFrom(_, _, _)
matchesFrom(providers, modelname, k) ==
  IF k > Len(providers) THEN <<>>
  ELSE matchesOfProvider(providers[k], modelname, 1)
       \o matchesFrom(providers, modelname, k + 1)

\* Router.getProvidersForModel; the `undefined` of the source (no match) is
\* the empty sequence here, the caller treats both alike
getProvidersForModel(providers, modelname) == matchesFrom(providers, modelname, 1)

\* isZeroCost without the catch: the answer the pricing of the model gives
isZeroCost_ignoresFailure(ready, model) ==
  LET pricing == getPriceWithOverride(model) IN
    IF pricing = None THEN FALSE
    ELSE LET p == Val(pricing) IN
      /\ (  p.inputCostPerMillionTokens # None \/ p.outputCostPerMillionTokens # None
          \/ p.costPerRequest # None)
      /\ (p.inputCostPerMillionTokens = None \/ p.inputCostPerMillionTokens = Some(0))
      /\ (p.outputCostPerMillionTokens = None \/ p.outputCostPerMillionTokens = Some(0))
      /\ (p.costPerRequest = None \/ p.costPerRequest = Some(0))

isZeroCost_noDefinedCheck(ready, model) ==
  IF ~ready THEN FALSE
  ELSE LET pricing == getPriceWithOverride(model) IN
    IF pricing = None THEN FALSE
    ELSE LET p == Val(pricing) IN
      /\ (p.inputCostPerMillionTokens = None \/ p.inputCostPerMillionTokens = Some(0))
      /\ (p.outputCostPerMillionTokens = None \/ p.outputCostPerMillionTokens = Some(0))
      /\ (p.costPerRequest = None \/ p.costPerRequest = Some(0))

\* Router.isZeroCost; `ready` is whether PriceData.getInstance() succeeds,
\* its throw is caught and answered with false
isZeroCost(ready, model) ==
  IF ~ready THEN FALSE
  ELSE LET pricing == getPriceWithOverride(model) IN
    IF pricing = None THEN FALSE
    ELSE LET p == Val(pricing)
             hasInputCost == p.inputCostPerMillionTokens # None
             hasOutputCost == p.outputCostPerMillionTokens # None
             hasRequestCost == p.costPerRequest # None
         IN IF ~hasInputCost /\ ~hasOutputCost /\ ~hasRequestCost THEN FALSE
            ELSE LET inputIsZero == ~hasInputCost \/ p.inputCostPerMillionTokens = Some(0)
                     outputIsZero == ~hasOutputCost \/ p.outputCostPerMillionTokens = Some(0)
                     requestIsZero == ~hasRequestCost \/ p.costPerRequest = Some(0)
                 IN inputIsZero /\ outputIsZero /\ requestIsZero

\* `pricing?.field ?? 0`
costOrInfinity_zero(pricing, field) ==
  IF pricing = None \/ Val(pricing)[field] = None THEN Some(0) ELSE Val(pricing)[field]

\* `pricing?.field ?? Infinity`: None stands for Infinity
costOrInfinity(pricing, field) == IF pricing = None THEN None ELSE Val(pricing)[field]

\* the sign of x - y in floating point: Infinity - Infinity is NaN, which
\* Array.prototype.sort takes as +0
Minus(x, y) ==
  IF x = None /\ y = None THEN 0
  ELSE IF x = None THEN 1
  ELSE IF y = None THEN -1
  ELSE Val(x) - Val(y)

\* the comparator without its rule for undefined costs
comparePaid_noUndefinedRule(a, b) ==
  LET pricingA == getPriceWithOverride(a.model)
      pricingB == getPriceWithOverride(b.model)
      inputCostA == costOrInfinity(pricingA, "inputCostPerMillionTokens")
      inputCostB == costOrInfinity(pricingB, "inputCostPerMillionTokens")
      outputCostA == costOrInfinity(pricingA, "outputCostPerMillionTokens")
      outputCostB == costOrInfinity(pricingB, "outputCostPerMillionTokens")
  IN IF inputCostA # inputCostB /\ inputCostA # None /\ inputCostB # None
       THEN Minus(inputCostA, inputCostB)
     ELSE Minus(outputCostA, outputCostB)

comparePaid_inputOnly(a, b) ==
  LET inputCostA == costOrInfinity(getPriceWithOverride(a.model), "inputCostPerMillionTokens")
      inputCostB == costOrInfinity(getPriceWithOverride(b.model), "inputCostPerMillionTokens")
      outputCostA == costOrInfinity(getPriceWithOverride(a.model), "outputCostPerMillionTokens")
      outputCostB == costOrInfinity(getPriceWithOverride(b.model), "outputCostPerMillionTokens")
      aHasUndefined == inputCostA = None \/ outputCostA = None
      bHasUndefined == inputCostB = None \/ outputCostB = None
  IN IF aHasUndefined /\ ~bHasUndefined THEN 1
     ELSE IF ~aHasUndefined /\ bHasUndefined THEN -1
     ELSE Minus(inputCostA, inputCostB)

\* the comparator of Router.selectBestPaidProvider
comparePaid(a, b) ==
  LET pricingA == getPriceWithOverride(a.model)
      pricingB == getPriceWithOverride(b.model)
      inputCostA == costOrInfinity(pricingA, "inputCostPerMillionTokens")
      inputCostB == costOrInfinity(pricingB, "inputCostPerMillionTokens")
      outputCostA == costOrInfinity(pricingA, "outputCostPerMillionTokens")
      outputCostB == costOrInfinity(pricingB, "outputCostPerMillionTokens")
      aHasUndefined == inputCostA = None \/ outputCostA = None
      bHasUndefined == inputCostB = None \/ outputCostB = None
  IN IF aHasUndefined /\ ~bHasUndefined THEN 1
     ELSE IF ~aHasUndefined /\ bHasUndefined THEN -1
     ELSE IF inputCostA # inputCostB THEN Minus(inputCostA, inputCostB)
     ELSE Minus(outputCostA, outputCostB)

\* an insertion that puts x in front of the elements equal to it
RECURSIVE insertSorted_unstable(_, _)
insertSorted_unstable(sorted, x) ==
  IF sorted = <<>> THEN <<x>>
  ELSE IF comparePaid(Head(sorted), x) < 0
       THEN <<Head(sorted)>> \o insertSorted_unstable(Tail(sorted), x)
       ELSE <<x>> \o sorted

\* insert x behind every element that does not compare greater than it
RECURSIVE insertSorted(_, _)
insertSorted(sorted, x) ==
  IF sorted = <<>> THEN <<x>>
  ELSE IF comparePaid(Head(sorted), x) <= 0
       THEN <<Head(sorted)>> \o insertSorted(Tail(sorted), x)
       ELSE <<x>> \o sorted

\* Array.prototype.sort is a stable comparison sort (ECMAScript 2019)
RECURSIVE sortPaid(_)
sortPaid(items) ==
  IF items = <<>> THEN <<>>
  ELSE insertSorted(sortPaid(SubSeq(items, 1, Len(items) - 1)), items[Len(items)])

\* Router.selectBestPaidProvider: None is `undefined`
selectBestPaidProvider(candidates) ==
  IF Len(candidates) = 0 THEN None ELSE Some(sortPaid(candidates)[1])

\* Router.selectBestPaidProvider calls PriceData.getInstance() outside any
\* try: it throws when the list is not empty and PriceData is not initialized
selectBestPaidProviderThrows(ready, candidates) == Len(candidates) # 0 /\ ~ready

RECURSIVE selectSeq(_, _, _)
selectSeq(candidates, ready, wantZero) ==
  IF candidates = <<>> THEN <<>>
  ELSE (IF isZeroCost(ready, Head(candidates).model) = wantZero
          THEN <<Head(candidates)>> ELSE <<>>)
       \o selectSeq(Tail(candidates), ready, wantZero)

\* Router.partitionCandidatesByCost
partitionCandidatesByCost(ready, candidates) ==
  [zeroCost |-> selectSeq(candidates, ready, TRUE),
   paid |-> selectSeq(candidates, ready, FALSE)]

\* a draw that always takes the first item
randomSelect_first(items, k) == items[1]

\* Router.randomSelect with Math.random() = k / RandSteps:
\* Math.floor(Math.random() * items.length)
randomSelect(items, k) == items[((k * Len(items)) \div RandSteps) + 1]

\* a selection that gives up when no candidate is zero-cost
selectBestCandidate_zeroOnly(zeroCostCandidates, paidCandidates, k) ==
  IF Len(zeroCostCandidates) > 0 THEN Some(randomSelect(zeroCostCandidates, k))
  ELSE None

\* a selection that draws among the paid candidates as well
selectBestCandidate_randomPaid(zeroCostCandidates, paidCandidates, k) ==
  IF Len(zeroCostCandidates) > 0 THEN Some(randomSelect(zeroCostCandidates, k))
  ELSE IF Len(paidCandidates) > 0 THEN Some(randomSelect(paidCandidates, k))
  ELSE None

selectBestCandidate_paidFirst(zeroCostCandidates, paidCandidates, k) ==
  IF Len(paidCandidates) > 0 THEN selectBestPaidProvider(paidCandidates)
  ELSE IF Len(zeroCostCandidates) > 0 THEN Some(randomSelect(zeroCostCandidates, k))
  ELSE None

\* Router.selectBestCandidate
selectBestCandidate(zeroCostCandidates, paidCandidates, k) ==
  IF Len(zeroCostCandidates) > 0 THEN Some(randomSelect(zeroCostCandidates, k))
  ELSE IF Len(paidCandidates) > 0 THEN selectBestPaidProvider(paidCandidates)
  ELSE None

\* Router.selectBestCandidate lets the throw of selectBestPaidProvider pass
selectBestCandidateThrows(ready, zeroCostCandidates, paidCandidates) ==
  /\ Len(zeroCostCandidates) = 0
  /\ Len(paidCandidates) > 0
  /\ selectBestPaidProviderThrows(ready, paidCandidates)

(* --------------------------- UnifiedExecutor -------------------------- *)

\* The repository holds UnifiedExecutor in two shapes. "part_006" is
\* src/unnamed/part_006 (src/unnamed/part_005 lines 110-478 has the same
\* control flow), "part_005" is src/unnamed/part_005 lines 500-842.
Builds == {"part_006", "part_005"}

\* the keys of PROVIDER_FACTORIES whose factory returns the instance
syncTypes(b) ==
  IF b = "part_006"
    THEN << "openai", "anthropic", "google", "google-vertex", "groq", "mistral",
            "deepseek", "xai", "perplexity", "togetherai", "qwen", "ollama",
            "gemini-cli", "claude-code", "openrouter", "openai-compatible", "custom" >>
    ELSE << "openai", "anthropic", "google", "openrouter", "deepinfra" >>

\* the keys whose factory returns a promise (copilot exchanges a token first)
asyncTypes(b) == IF b = "part_006" THEN << "copilot" >> ELSE << >>

\* UnifiedExecutor.getSupportedProviders: the keys in insertion order
getSupportedProviders(b) == syncTypes(b) \o asyncTypes(b)

\* PROVIDER_FACTORIES.get(type): "sync" for a factory that returns the
\* instance, "async" for one that returns a promise, "none" for a type
\* without entry
factoryKind(b, type) ==
  IF \E i \in DOMAIN syncTypes(b) : syncTypes(b)[i] = type THEN "sync"
  ELSE IF \E i \in DOMAIN asyncTypes(b) : asyncTypes(b)[i] = type THEN "async"
  ELSE "none"

\* the Error CopilotTokenManager.fetchMeta throws when the exchange fails
tokenError(type) ==
  [message |-> "Failed to fetch bearer token", type |-> type, supported |-> << >>]

\* the Error createProviderInstance throws for a type without factory:
\* `Unsupported provider type: ${type}. Supported types: ${list}`
unsupportedProviderError(b, type) ==
  [message |-> "Unsupported provider type", type |-> type,
   supported |-> getSupportedProviders(b)]

\* `${config.type}-${config.id}`
cacheKey(config) == config.type \o "-" \o config.id

\* Map.prototype.set on providerInstances
mapSet(map, key, value) ==
  [x \in (DOMAIN map) \cup {key} |-> IF x = key THEN value ELSE map[x]]

\* what a factory call returns: a new object on every call, made for the
\* provider whose configuration it got and holding its credentials
newInstance(serial, config) ==
  [serial |-> serial, key |-> cacheKey(config), apiKey |-> config.apiKey,
   builtFor |-> << config.type, config.id >>]

\* getOrCreateProvider up to its await: "hit" the key is cached, "built" a
\* factory returned the instance at once (the await on it resumes in the same
\* turn, set and get follow), "pending" a factory returned a promise that is
\* still open, "throw" createProviderInstance found no factory
getOrCreateBegin(b, instances, count, config) ==
  LET key == cacheKey(config)
      kind == factoryKind(b, config.type)
      built == mapSet(instances, key, newInstance(count + 1, config))
  IN IF key \in DOMAIN instances
       THEN [outcome |-> "hit", instance |-> Some(instances[key]),
             instances |-> instances, serial |-> count]
     ELSE IF kind = "none"
       THEN [outcome |-> "throw", instance |-> None,
             instances |-> instances, serial |-> count]
     ELSE IF kind = "sync"
       THEN [outcome |-> "built", instance |-> Some(built[key]),
             instances |-> built, serial |-> count + 1]
     ELSE [outcome |-> "pending", instance |-> None,
           instances |-> instances, serial |-> count + 1]

\* getOrCreateProvider after the await on a factory's promise: set, then get
getOrCreateFinish(instances, ticket, config) ==
  LET stored == mapSet(instances, cacheKey(config), newInstance(ticket, config))
  IN [instance |-> Some(stored[cacheKey(config)]), instances |-> stored]

\* the slug handed to providerInstance(...)
backendSlug(b, model) ==
  IF b = "part_006" THEN Some(model.canonical_slug) ELSE model.exposed_slug

\* the `model` field of the wire response
wireModelName(b, model) ==
  IF b = "part_006" THEN Some(OrElse(model.exposed_slug, model.canonical_slug))
  ELSE model.exposed_slug

\* number of generateText calls of a non-streaming request
generationCount(b, n) == IF b = "part_006" /\ n > 1 THEN n ELSE 1

\* `usage.a ?? usage.b ?? 0`
tokenCount(usage, a, b) ==
  IF usage[a] # None THEN Val(usage[a])
  ELSE IF usage[b] # None THEN Val(usage[b])
  ELSE 0

promptTokensOf(result) == tokenCount(result.usage, "promptTokens", "inputTokens")

completionTokensOf(result) == tokenCount(result.usage, "completionTokens", "outputTokens")

RECURSIVE sumPrompt(_)
sumPrompt(results) ==
  IF results = <<>> THEN 0 ELSE promptTokensOf(Head(results)) + sumPrompt(Tail(results))

RECURSIVE sumCompletion(_)
sumCompletion(results) ==
  IF results = <<>> THEN 0
  ELSE completionTokensOf(Head(results)) + sumCompletion(Tail(results))

wireUsage(promptTokens, completionTokens) ==
  [prompt_tokens |-> promptTokens,
   completion_tokens |-> completionTokens,
   total_tokens |-> promptTokens + completionTokens]

wireChoice(index, result) ==
  [index |-> index, content |-> result.text, finish_reason |-> result.finishReason]

\* the body of a JSON response: a completion or an {error} object
completionBody(modelName, choices, usage) ==
  [kind |-> "completion", model |-> modelName, choices |-> choices, usage |-> usage]

errorBody == [kind |-> "error", model |-> None, choices |-> <<>>, usage |-> None]

\* UnifiedExecutor.handleNonStreamingResponse
handleNonStreamingResponse(b, model, result) ==
  completionBody(wireModelName(b, model),
                 << wireChoice(0, result) >>,
                 IF b = "part_006"
                   THEN Some(wireUsage(promptTokensOf(result), completionTokensOf(result)))
                   ELSE None)

\* UnifiedExecutor.handleMultipleChoicesResponse
handleMultipleChoicesResponse(b, model, results) ==
  completionBody(wireModelName(b, model),
                 [i \in 1 .. Len(results) |-> wireChoice(i - 1, results[i])],
                 IF b = "part_006"
                   THEN Some(wireUsage(sumPrompt(results), sumCompletion(results)))
                   ELSE None)

\* the response object before anything is written
freshResponse ==
  [statusCode |-> 0, headersSent |-> FALSE, written |-> <<>>, json |-> None,
   ended |-> FALSE,
   endCount |-> 0,       \* calls of res.end(), res.json() included
   connected |-> TRUE]   \* the client's socket is open

\* res.json(body) / res.status(code).json(body) / res.writeHead(code); res.end(JSON)
sendJson(rs, code, body) ==
  [rs EXCEPT !.statusCode = code, !.headersSent = TRUE, !.json = Some(body),
             !.ended = TRUE, !.endCount = @ + 1]

chunk(kind, modelName, content, finishReason) ==
  [kind |-> kind, model |-> modelName, index |-> 0, content |-> content,
   finish_reason |-> finishReason]

roleChunk(modelName) == chunk("role", modelName, None, None)

contentChunk(modelName, textDelta) == chunk("content", modelName, Some(textDelta), None)

finalChunk(modelName, finishReason) == chunk("final", modelName, None, Some(finishReason))

\* data: {"error": "..."}
errorNotice == [kind |-> "error", model |-> None, index |-> 0, content |-> None,
                finish_reason |-> None]

\* data: [DONE]
doneSentinel == [kind |-> "done", model |-> None, index |-> 0, content |-> None,
                 finish_reason |-> None]

writeOutcome_throws(rs) == IF rs.connected THEN "ok" ELSE "throw"

\* res.write(frame): http.ServerResponse hands the frame to an open socket;
\* on a socket the client has closed it returns false and the frame is
\* discarded (the error goes to the write callback, nothing is thrown)
writeOutcome(rs) == IF rs.connected THEN "ok" ELSE "dropped"

RECURSIVE tryWrites(_, _)
\* res.write for each frame in turn, up to the first write that throws
tryWrites(rs, frames) ==
  IF frames = <<>> THEN [res |-> rs, threw |-> FALSE]
  ELSE IF writeOutcome(rs) = "throw" THEN [res |-> rs, threw |-> TRUE]
  ELSE IF writeOutcome(rs) = "dropped" THEN tryWrites(rs, Tail(frames))
  ELSE tryWrites([rs EXCEPT !.written = Append(@, Head(frames))], Tail(frames))

\* res.write for each frame in turn where no write throws
writeAll(rs, frames) == tryWrites(rs, frames).res

\* handleStreamingResponse up to its first await: writeHead(200), role chunk
openStream(rs, modelName) ==
  writeAll([rs EXCEPT !.statusCode = 200, !.headersSent = TRUE], << roleChunk(modelName) >>)

streamEndWrites_sentinelFirst(modelName, finishReason) ==
  << doneSentinel, finalChunk(modelName, finishReason) >>

\* the writes after the text stream ended: final chunk, then the sentinel
streamEndWrites(modelName, finishReason) ==
  << finalChunk(modelName, finishReason), doneSentinel >>

streamErrorWrites_noSentinel == << errorNotice >>

\* the writes of the catch block once the stream is open
streamErrorWrites == << errorNotice, doneSentinel >>

\* res.end()
endResponse(rs) == [rs EXCEPT !.ended = TRUE, !.endCount = @ + 1]

\* the catch block of handleStreamingResponse
streamCatch_endTwice(b, rs) ==
  endResponse(endResponse(tryWrites(rs, streamErrorWrites).res))

\* the catch block of handleStreamingResponse: part_006 writes and ends
\* unguarded, part_005 looks at headersSent and writableEnded and wraps the
\* writes in try / catch / finally { res.end() }
streamCatch(b, rs) ==
  LET w == tryWrites(rs, streamErrorWrites) IN
  IF b = "part_006" THEN (IF w.threw THEN w.res ELSE endResponse(w.res))
  ELSE IF ~rs.headersSent THEN sendJson(rs, 500, errorBody)
  ELSE IF ~rs.ended THEN endResponse(w.res)
  ELSE rs

\* a write of the catch block threw and nothing caught it: the promise of
\* handleStreamingResponse rejects
streamCatchThrows(b, rs) ==
  b = "part_006" /\ tryWrites(rs, streamErrorWrites).threw

\* writes inside the try of handleStreamingResponse, res.end() after them
\* when close; a write that throws enters the catch block
streamStep(b, rs, frames, close) ==
  LET w == tryWrites(rs, frames) IN
  IF w.threw
    THEN [res |-> streamCatch(b, w.res),
          pc |-> IF streamCatchThrows(b, w.res) THEN "fault" ELSE "failed"]
  ELSE IF close THEN [res |-> endResponse(w.res), pc |-> "done"]
  ELSE [res |-> w.res, pc |-> "streaming"]

\* what getBestProviderForModel's promise settles with: a status and a chosen
\* candidate, or a rejection (threw)
routingResult(status, chosen) == [status |-> status, chosen |-> chosen, threw |-> FALSE]

routingRejected == [status |-> 0, chosen |-> None, threw |-> TRUE]

getBestProviderForModel_noEmptyCheck(ready, catalog, modelName, k) ==
  LET found == getProvidersForModel(catalog, modelName)
      parts == partitionCandidatesByCost(ready, found)
      selected == selectBestCandidate(parts.zeroCost, parts.paid, k)
  IN IF selectBestCandidateThrows(ready, parts.zeroCost, parts.paid) THEN routingRejected
     ELSE IF selected = None THEN routingResult(500, None)
     ELSE routingResult(200, selected)

\* Router.getBestProviderForModel from the resolved candidates on; k is the
\* draw of Math.random()
routeCandidates(ready, found, k) ==
  IF Len(found) = 0 THEN routingResult(404, None)
  ELSE LET availableCandidates == found IN
    IF Len(availableCandidates) = 0 THEN routingResult(503, None)
    ELSE LET parts == partitionCandidatesByCost(ready, availableCandidates)
             selected == selectBestCandidate(parts.zeroCost, parts.paid, k)
         IN IF selectBestCandidateThrows(ready, parts.zeroCost, parts.paid)
              THEN routingRejected
            ELSE IF selected = None THEN routingResult(500, None)
            ELSE routingResult(200, selected)

\* Router.getBestProviderForModel
getBestProviderForModel(ready, catalog, modelName, k) ==
  routeCandidates(ready, getProvidersForModel(catalog, modelName), k)

(* ------------------------------- state -------------------------------- *)

VARIABLES
  priceDataReady,  \* PriceData.instance exists (PriceData.initialize ran)
  candidates,      \* the resolved candidate list given to the selection
  zeroCost,        \* partitionCandidatesByCost(...).zeroCost
  paid,            \* partitionCandidatesByCost(...).paid
  selectedCandidate, \* result of selectBestCandidate
  selPc,           \* "input" before the selection ran, "done" after
  providers,       \* ConfigManager.getProviders(): the catalog
  modelname,       \* the requested model identifier
  matches,         \* result of getProvidersForModel
  resolvePc,       \* "input" before the resolver ran, "done" after
  build,           \* which UnifiedExecutor source the server runs
  providerInstances, \* UnifiedExecutor.providerInstances: cache key -> instance
  serial,          \* provider instances constructed so far
  req,             \* per request slot: position of its handler and its locals
  res,             \* per request slot: the express Response
  dbData,          \* DatabaseConfigManager.db.data: the providers the file holds
  cfgPc,           \* the updateConfig / reloadConfig call in flight
  catalogRead,     \* the local `providers` of Router.getProvidersForModel
  configModels,    \* config.models of the model-centred configuration
  modelsResponse,  \* the ids GET /v1/models answered with
  now,             \* Date.now(), in units of five minutes
  tokenCache,      \* CopilotTokenManager's tokenCache: oauthToken -> meta
  tokenCall,       \* per request slot: its getBearerToken call and the use of the handle
  thisConfig,      \* the configuration manager's this.config
  dbObj,           \* the configuration manager's this.db.data
  file,            \* the content of the JSON file behind this.db
  cfgOps,          \* updateConfig / reloadConfig calls in flight, in call order
  cfgLog           \* the configuration calls completed last, oldest first

selVars == <<candidates, zeroCost, paid, selectedCandidate, selPc>>

resolveVars == <<modelname, matches, resolvePc>>

execVars == <<build, providerInstances, serial, req, res>>

tokenVars == <<now, tokenCache, tokenCall>>

storeVars == <<thisConfig, dbObj, file, cfgOps, cfgLog>>

adminVars ==
  <<dbData, cfgPc, catalogRead, configModels, modelsResponse, tokenVars, storeVars>>

vars == <<priceDataReady, providers, selVars, resolveVars, execVars, adminVars>>

\* no configuration call in flight
cfgIdle == [op |-> "idle", config |-> <<>>]

Req == 1 .. MaxCallers

\* a slot with no getBearerToken call and no use of a handle
idleTokenCall == [pc |-> "idle", fetched |-> FALSE, returned |-> None, usedAt |-> None]

\* the module-level tokenCache is empty and no call is in flight
TokenIdle ==
  /\ now = 0
  /\ tokenCache = <<>>
  /\ tokenCall = [r \in Req |-> idleTokenCall]

\* a configuration object: each top-level field of AppConfig, None when the
\* object does not have it
emptyConfig == [providers |-> None, logLevel |-> None]

\* no configuration call in flight and none completed
StoreIdle ==
  /\ thisConfig = emptyConfig
  /\ dbObj = emptyConfig
  /\ file = emptyConfig
  /\ cfgOps = <<>>
  /\ cfgLog = <<>>

\* the configuration manager after initialize(): config is db.data; no
\* routing read and no model listing has happened
AdminIdle ==
  /\ dbData = providers
  /\ cfgPc = cfgIdle
  /\ catalogRead = <<>>
  /\ configModels = <<>>
  /\ modelsResponse = None
  /\ TokenIdle
  /\ StoreIdle

\* a request slot with no request in it
idleRequest ==
  [pc |-> "idle",
   body |-> [model |-> "", stream |-> FALSE, n |-> 1],
   chosenProvider |-> None,   \* res.locals.chosenProvider
   chosenModel |-> None,      \* res.locals.chosenModel
   key |-> None,              \* cacheKey of the getOrCreateProvider call
   instance |-> None,         \* what getOrCreateProvider returned
   ticket |-> 0,              \* identity of the instance its factory call builds
   slug |-> None,             \* the model name the backend was called with
   gens |-> <<>>,             \* generateText calls: None pending, Some(result)
   frags |-> <<>>,            \* text fragments received from textStream
   finishReason |-> None,     \* the backend's finish reason of the stream
   calledFactory |-> FALSE,   \* this call invoked a factory
   joined |-> {},             \* calls constructing the same key when this one began
   calls |-> <<>>,            \* backend calls issued: provider id and model slug
   backendFailed |-> FALSE,   \* a backend call of this request failed
   executions |-> 0,          \* calls of UnifiedExecutor.execute for this request
   error |-> None]            \* the error getOrCreateProvider rejected with

ExecIdle ==
  /\ build = "part_006"
  /\ providerInstances = <<>>
  /\ serial = 0
  /\ req = [r \in Req |-> idleRequest]
  /\ res = [r \in Req |-> freshResponse]

(* ------------------- selection policy on candidate lists -------------- *)

SelIdle ==
  /\ candidates = <<>>
  /\ zeroCost = <<>>
  /\ paid = <<>>
  /\ selectedCandidate = None
  /\ selPc = "idle"

ResolveIdle ==
  /\ modelname = ""
  /\ matches = <<>>
  /\ resolvePc = "idle"

\* index.ts runs PriceData.initialize() before the server listens
InitSelect ==
  /\ priceDataReady = TRUE
  /\ \E n \in 1 .. MaxCand :
       \E ps \in [1 .. n -> OptPricing] :
         candidates = [i \in 1 .. n |-> CandidateOf(i, ps[i])]
  /\ zeroCost = <<>>
  /\ paid = <<>>
  /\ selectedCandidate = None
  /\ selPc = "input"
  /\ providers = <<>>
  /\ ResolveIdle
  /\ ExecIdle
  /\ AdminIdle

\* Router.getBestProviderForModel, lines 228-229: partition, then select;
\* k is the draw of Math.random()
\* a selection that reads the catalog again instead of using the candidates
\* the request resolved
Select_rereads ==
  /\ selPc = "input"
  /\ LET again == IF catalogRead = <<>> THEN candidates
                  ELSE getProvidersForModel(providers, modelname)
     IN /\ zeroCost' = partitionCandidatesByCost(priceDataReady, again).zeroCost
        /\ paid' = partitionCandidatesByCost(priceDataReady, again).paid
  /\ IF selectBestCandidateThrows(priceDataReady, zeroCost', paid')
       THEN selectedCandidate' = None /\ selPc' = "threw"
       ELSE /\ \E k \in 0 .. RandSteps - 1 :
                 selectedCandidate' = selectBestCandidate(zeroCost', paid', k)
            /\ selPc' = "done"
  /\ UNCHANGED <<priceDataReady, providers, candidates, resolveVars, execVars, adminVars>>

Select ==
  /\ selPc = "input"
  /\ zeroCost' = partitionCandidatesByCost(priceDataReady, candidates).zeroCost
  /\ paid' = partitionCandidatesByCost(priceDataReady, candidates).paid
  /\ IF selectBestCandidateThrows(priceDataReady, zeroCost', paid')
       THEN selectedCandidate' = None /\ selPc' = "threw"
       ELSE /\ \E k \in 0 .. RandSteps - 1 :
                 selectedCandidate' = selectBestCandidate(zeroCost', paid', k)
            /\ selPc' = "done"
  /\ UNCHANGED <<priceDataReady, providers, candidates, resolveVars, execVars, adminVars>>

NextSelect == Select

SpecSelect == InitSelect /\ [][NextSelect]_vars

(* --------------------- candidate resolver on catalogs ----------------- *)

CatalogProvider(i, models) ==
  [id |-> ProviderIds[i], type |-> "openai", apiKey |-> "k1", models |-> models]

InitResolve ==
  /\ \E np \in 0 .. MaxProviders :
       \E lens \in [1 .. np -> 0 .. MaxModels] :
         \E ms \in [1 .. np -> [1 .. MaxModels -> PlainModels]] :
           providers = [i \in 1 .. np |->
                          CatalogProvider(i, [j \in 1 .. lens[i] |-> ms[i][j]])]
  /\ modelname \in Slugs \cup {""}
  /\ matches = <<>>
  /\ resolvePc = "input"
  /\ priceDataReady = TRUE
  /\ SelIdle
  /\ ExecIdle
  /\ AdminIdle

\* Router.getProvidersForModel
Resolve ==
  /\ resolvePc = "input"
  /\ matches' = getProvidersForModel(providers, modelname)
  /\ resolvePc' = "done"
  /\ UNCHANGED <<priceDataReady, providers, modelname, selVars, execVars, adminVars>>

NextResolve == Resolve

SpecResolve == InitResolve /\ [][NextResolve]_vars

(* ----------------------- the request pipeline ------------------------- *)

zeroPricing ==
  Some([inputCostPerMillionTokens |-> Some(0),
        outputCostPerMillionTokens |-> Some(0),
        costPerRequest |-> None])

\* a catalog as the configuration file may hold it: "m1" is served at zero
\* cost by an openai and by a copilot provider, "m2" by a provider whose
\* type has no factory
DefaultCatalog ==
  << [id |-> "p1", type |-> "openai", apiKey |-> "k1",
      models |-> << [canonical_slug |-> "gpt", exposed_slug |-> Some("m1"),
                     pricing |-> zeroPricing] >>],
     [id |-> "p2", type |-> "copilot", apiKey |-> "k1",
      models |-> << [canonical_slug |-> "cop", exposed_slug |-> Some("m1"),
                     pricing |-> zeroPricing] >>],
     [id |-> "p3", type |-> "bedrock", apiKey |-> "k1",
      models |-> << [canonical_slug |-> "m2", exposed_slug |-> None,
                     pricing |-> None] >>] >>

RequestModels == {"m1", "m2", "m3"}

backendUsage(promptTokens, completionTokens, inputTokens, outputTokens) ==
  [promptTokens |-> promptTokens, completionTokens |-> completionTokens,
   inputTokens |-> inputTokens, outputTokens |-> outputTokens]

\* what generateText may resolve to: usage in the older and the newer field
\* names of the SDK, and without counts
GenResults ==
  { [text |-> "a", finishReason |-> "stop",
     usage |-> backendUsage(Some(1), Some(2), None, None)],
    [text |-> "b", finishReason |-> "length",
     usage |-> backendUsage(None, None, Some(2), Some(1))],
    [text |-> "c", finishReason |-> "stop",
     usage |-> backendUsage(None, None, None, None)] }

TextDeltas == {"x", "y"}

FinishReasons == {"stop", "length"}

Init ==
  /\ priceDataReady = TRUE
  /\ providers = DefaultCatalog
  /\ SelIdle
  /\ ResolveIdle
  /\ build \in Builds
  /\ providerInstances = <<>>
  /\ serial = 0
  /\ req = [r \in Req |-> idleRequest]
  /\ res = [r \in Req |-> freshResponse]
  /\ AdminIdle

\* an execute that starts one backend stream per requested choice
dispatch_streamPerChoice(b, rq, rs) ==
  LET slug == backendSlug(b, Val(rq.chosenModel))
      call == [provider |-> Val(rq.chosenProvider).id, slug |-> slug]
  IN
  IF rq.body.stream
    THEN [req |-> [rq EXCEPT !.pc = "streaming", !.slug = slug,
                             !.calls = [i \in 1 .. rq.body.n |-> call]],
          res |-> openStream(rs, wireModelName(b, Val(rq.chosenModel)))]
    ELSE [req |-> [rq EXCEPT !.pc = "generating", !.slug = slug,
                             !.gens = [i \in 1 .. generationCount(b, rq.body.n) |-> None],
                             !.calls = [i \in 1 .. generationCount(b, rq.body.n) |-> call]],
          res |-> rs]

\* execute once getOrCreateProvider has returned: create the model, read the
\* body, start the backend call(s); a streaming request opens the stream
dispatch(b, rq, rs) ==
  LET slug == backendSlug(b, Val(rq.chosenModel))
      call == [provider |-> Val(rq.chosenProvider).id, slug |-> slug]
  IN
  IF rq.body.stream
    THEN [req |-> [rq EXCEPT !.pc = "streaming", !.slug = slug, !.calls = << call >>],
          res |-> openStream(rs, wireModelName(b, Val(rq.chosenModel)))]
    ELSE [req |-> [rq EXCEPT !.pc = "generating", !.slug = slug,
                             !.gens = [i \in 1 .. generationCount(b, rq.body.n) |-> None],
                             !.calls = [i \in 1 .. generationCount(b, rq.body.n) |-> call]],
          res |-> rs]

\* getOrCreateProvider rejected: part_006 catches it in execute and answers
\* 500, part_005 awaits it outside any try and the rejection leaves execute
constructionFailed(b, rq, rs, error) ==
  IF b = "part_006"
    THEN [req |-> [rq EXCEPT !.pc = "done", !.error = Some(error)],
          res |-> sendJson(rs, 500, errorBody)]
    ELSE [req |-> [rq EXCEPT !.pc = "fault", !.error = Some(error)], res |-> rs]

\* the locals of a call of getOrCreateProvider(config) by slot r
callOf(r, config, g) ==
  [idleRequest EXCEPT
     !.executions = 1,
     !.chosenProvider = Some(config),
     !.key = Some(cacheKey(config)),
     !.instance = g.instance,
     !.calledFactory = g.outcome \in {"built", "pending"},
     !.ticket = IF g.outcome = "pending" THEN g.serial ELSE 0,
     !.joined = {q \in Req \ {r} :
                   req[q].pc = "constructing" /\ req[q].key = Some(cacheKey(config))}]

\* Router.chooseProvider and, on success, UnifiedExecutor.execute up to its
\* first suspension on I/O (awaits on settled values run in the same turn)
HandleRequest(r) ==
  /\ req[r].pc = "idle"
  /\ \E m \in RequestModels, stream \in BOOLEAN, n \in 1 .. MaxN, k \in 0 .. RandSteps - 1 :
       LET result == getBestProviderForModel(priceDataReady, providers, m, k)
           body == [model |-> m, stream |-> stream, n |-> n]
       IN
       IF result.threw
         THEN /\ req' = [req EXCEPT ![r] = [idleRequest EXCEPT !.pc = "fault", !.body = body]]
              /\ res' = [res EXCEPT ![r] = freshResponse]
              /\ UNCHANGED <<providerInstances, serial, adminVars>>
       ELSE IF result.status # 200
         THEN /\ req' = [req EXCEPT ![r] = [idleRequest EXCEPT !.pc = "done", !.body = body]]
              /\ res' = [res EXCEPT ![r] = sendJson(freshResponse, result.status, errorBody)]
              /\ UNCHANGED <<providerInstances, serial, adminVars>>
         ELSE
           LET config == Val(result.chosen).provider
               g == getOrCreateBegin(build, providerInstances, serial, config)
               rq == [callOf(r, config, g) EXCEPT
                        !.body = body,
                        !.chosenModel = Some(Val(result.chosen).model)]
               out == IF g.outcome = "throw"
                        THEN constructionFailed(build, rq, freshResponse,
                               unsupportedProviderError(build, config.type))
                      ELSE IF g.outcome = "pending"
                        THEN [req |-> [rq EXCEPT !.pc = "constructing"], res |-> freshResponse]
                      ELSE dispatch(build, rq, freshResponse)
           IN /\ g.serial <= MaxHandles
              /\ providerInstances' = g.instances
              /\ serial' = g.serial
              /\ req' = [req EXCEPT ![r] = out.req]
              /\ res' = [res EXCEPT ![r] = out.res]
  /\ UNCHANGED <<build, priceDataReady, providers, selVars, resolveVars, adminVars>>

\* getOrCreateProvider after `await this.createProviderInstance(config)`:
\* the factory's promise resolved; set, get, and execute goes on
ConstructResolve(r) ==
  /\ req[r].pc = "constructing"
  /\ LET g == getOrCreateFinish(providerInstances, req[r].ticket, Val(req[r].chosenProvider))
         out == dispatch(build, [req[r] EXCEPT !.instance = g.instance], res[r])
     IN /\ providerInstances' = g.instances
        /\ req' = [req EXCEPT ![r] = out.req]
        /\ res' = [res EXCEPT ![r] = out.res]
  /\ UNCHANGED <<build, serial, priceDataReady, providers, selVars, resolveVars, adminVars>>

\* the factory's promise rejected (the token exchange failed)
ConstructReject(r) ==
  /\ req[r].pc = "constructing"
  /\ LET out == constructionFailed(build, req[r], res[r],
                                    tokenError(Val(req[r].chosenProvider).type))
     IN /\ req' = [req EXCEPT ![r] = out.req]
        /\ res' = [res EXCEPT ![r] = out.res]
  /\ UNCHANGED <<build, providerInstances, serial, priceDataReady, providers,
                 selVars, resolveVars, adminVars>>

allResolved(gens) == \A i \in DOMAIN gens : gens[i] # None

\* one generateText call resolves; when it was the last one pending the
\* response is sent
GenResolve(r) ==
  /\ req[r].pc = "generating"
  /\ \E i \in DOMAIN req[r].gens, result \in GenResults :
       /\ req[r].gens[i] = None
       /\ LET gens == [req[r].gens EXCEPT ![i] = Some(result)]
              results == [j \in DOMAIN gens |-> Val(gens[j])]
              model == Val(req[r].chosenModel)
          IN IF allResolved(gens)
               THEN /\ req' = [req EXCEPT ![r].gens = gens, ![r].pc = "done"]
                    /\ res' = [res EXCEPT ![r] =
                         sendJson(@, 200,
                           IF build = "part_006" /\ req[r].body.n > 1
                             THEN handleMultipleChoicesResponse(build, model, results)
                             ELSE handleNonStreamingResponse(build, model, results[1]))]
               ELSE /\ req' = [req EXCEPT ![r].gens = gens]
                    /\ UNCHANGED res
  /\ UNCHANGED <<build, providerInstances, serial, priceDataReady, providers,
                 selVars, resolveVars, adminVars>>

GenReject_retry(r) ==
  /\ req[r].pc = "generating"
  /\ \E i \in DOMAIN req[r].gens : req[r].gens[i] = None
  /\ Len(req[r].calls) <= MaxN
  /\ req' = [req EXCEPT ![r].calls = Append(@, @[1]), ![r].backendFailed = TRUE]
  /\ UNCHANGED <<res, build, providerInstances, serial, priceDataReady, providers,
                 selVars, resolveVars, adminVars>>

GenReject_partial(r) ==
  /\ req[r].pc = "generating"
  /\ \E i \in DOMAIN req[r].gens : req[r].gens[i] = None
  /\ req' = [req EXCEPT ![r].pc = "done", ![r].backendFailed = TRUE]
  /\ res' = [res EXCEPT ![r] =
       sendJson(@, 200,
         completionBody(wireModelName(build, Val(req[r].chosenModel)),
                        << >>, None))]
  /\ UNCHANGED <<build, providerInstances, serial, priceDataReady, providers,
                 selVars, resolveVars, adminVars>>

\* one generateText call rejects: the await (of Promise.all, or of the single
\* call) throws and the catch of execute answers 500
GenReject(r) ==
  /\ req[r].pc = "generating"
  /\ \E i \in DOMAIN req[r].gens : req[r].gens[i] = None
  /\ req' = [req EXCEPT ![r].pc = "done", ![r].backendFailed = TRUE]
  /\ res' = [res EXCEPT ![r] = sendJson(@, 500, errorBody)]
  /\ UNCHANGED <<build, providerInstances, serial, priceDataReady, providers,
                 selVars, resolveVars, adminVars>>

\* textStream yields a fragment: one content chunk is written
StreamFragment(r) ==
  /\ req[r].pc = "streaming"
  /\ Len(req[r].frags) < MaxFrags
  /\ \E textDelta \in TextDeltas :
       LET step == streamStep(build, res[r],
                     << contentChunk(wireModelName(build, Val(req[r].chosenModel)),
                                     textDelta) >>, FALSE)
       IN /\ req' = [req EXCEPT ![r].frags = Append(@, textDelta), ![r].pc = step.pc]
          /\ res' = [res EXCEPT ![r] = step.res]
  /\ UNCHANGED <<build, providerInstances, serial, priceDataReady, providers,
                 selVars, resolveVars, adminVars>>

\* textStream ends and result.finishReason resolves
StreamComplete(r) ==
  /\ req[r].pc = "streaming"
  /\ \E finishReason \in FinishReasons :
       LET step == streamStep(build, res[r],
                     streamEndWrites(wireModelName(build, Val(req[r].chosenModel)),
                                     finishReason), TRUE)
       IN /\ req' = [req EXCEPT ![r].pc = step.pc, ![r].finishReason = Some(finishReason)]
          /\ res' = [res EXCEPT ![r] = step.res]
  /\ UNCHANGED <<build, providerInstances, serial, priceDataReady, providers,
                 selVars, resolveVars, adminVars>>

\* textStream or result.finishReason throws: the catch block runs
StreamFail(r) ==
  /\ req[r].pc = "streaming"
  /\ req' = [req EXCEPT ![r].pc = IF streamCatchThrows(build, res[r]) THEN "fault"
                                  ELSE "failed",
                          ![r].backendFailed = TRUE]
  /\ res' = [res EXCEPT ![r] = streamCatch(build, @)]
  /\ UNCHANGED <<build, providerInstances, serial, priceDataReady, providers,
                 selVars, resolveVars, adminVars>>

\* the client closes its connection while the stream is open; no handler
\* is registered for the response's close event and streamText was given
\* no abort signal
ClientDisconnect(r) ==
  /\ req[r].pc = "streaming"
  /\ res[r].connected
  /\ res' = [res EXCEPT ![r].connected = FALSE]
  /\ UNCHANGED <<req, build, providerInstances, serial, priceDataReady, providers,
                 selVars, resolveVars, adminVars>>

\* the exchange is over; the slot takes the next request
Reset(r) ==
  /\ req[r].pc \in {"done", "failed", "fault"}
  /\ req' = [q \in Req |-> IF q = r THEN idleRequest
                            ELSE [req[q] EXCEPT !.joined = @ \ {r}]]
  /\ res' = [res EXCEPT ![r] = freshResponse]
  /\ UNCHANGED <<build, providerInstances, serial, priceDataReady, providers,
                 selVars, resolveVars, adminVars>>

\* UnifiedExecutor.clearCache
clearCache ==
  /\ providerInstances # <<>>
  /\ providerInstances' = <<>>
  /\ UNCHANGED <<build, serial, req, res, priceDataReady, providers, selVars, resolveVars,
                 adminVars>>

\* the pipeline serves one request after the other in slot 1
Next ==
  \/ HandleRequest(1)
  \/ ConstructResolve(1)
  \/ ConstructReject(1)
  \/ GenResolve(1)
  \/ GenReject(1)
  \/ StreamFragment(1)
  \/ StreamComplete(1)
  \/ StreamFail(1)
  \/ Reset(1)
  \/ clearCache

Spec == Init /\ [][Next]_vars

\* the handler of V1Router.post('/v1/chat/completions'): the selection runs
\* inside try/catch, the catch answers 500, and execute is called after the
\* try statement in either case. With nothing in res.locals, execute fails on
\* `chosenProvider.type` (part_006) or on `config.type` in getOrCreateProvider
\* (part_005) before it writes anything; its promise is not awaited.
V1ChatCompletions(r) ==
  \/ /\ HandleRequest(r)
     /\ req'[r].chosenProvider # None
  \/ /\ req[r].pc = "idle"
     /\ \E m \in RequestModels, stream \in BOOLEAN, n \in 1 .. MaxN :
          /\ Len(getProvidersForModel(providers, m)) = 0
          /\ req' = [req EXCEPT ![r] =
               [idleRequest EXCEPT !.pc = "fault", !.executions = 1,
                                   !.body = [model |-> m, stream |-> stream, n |-> n]]]
     /\ res' = [res EXCEPT ![r] = sendJson(freshResponse, 500, errorBody)]
     /\ UNCHANGED <<build, providerInstances, serial, priceDataReady, providers,
                    selVars, resolveVars, adminVars>>

NextV1 ==
  \/ V1ChatCompletions(1)
  \/ ConstructResolve(1)
  \/ ConstructReject(1)
  \/ GenResolve(1)
  \/ GenReject(1)
  \/ StreamFragment(1)
  \/ StreamComplete(1)
  \/ StreamFail(1)
  \/ Reset(1)
  \/ clearCache

SpecV1 == Init /\ [][NextV1]_vars

\* the pipeline with a client that may close its connection mid-stream
NextDisconnect ==
  \/ Next
  \/ ClientDisconnect(1)

SpecDisconnect == Init /\ [][NextDisconnect]_vars

(* ------------- concurrent callers of getOrCreateProvider -------------- *)

\* execute calls getOrCreateProvider(chosenProvider) for a provider of the catalog
CacheCall(r) ==
  /\ req[r].pc = "idle"
  /\ \E i \in DOMAIN providers :
       LET g == getOrCreateBegin(build, providerInstances, serial, providers[i])
           rq == callOf(r, providers[i], g)
       IN /\ g.serial <= MaxHandles
          /\ providerInstances' = g.instances
          /\ serial' = g.serial
          /\ req' = [req EXCEPT ![r] =
               [rq EXCEPT !.pc = IF g.outcome = "throw" THEN "rejected"
                                 ELSE IF g.outcome = "pending" THEN "constructing"
                                 ELSE "returned"]]
  /\ UNCHANGED <<build, res, priceDataReady, providers, selVars, resolveVars, adminVars>>

\* the factory's promise resolved: set, get, return
CacheResolve(r) ==
  /\ req[r].pc = "constructing"
  /\ LET g == getOrCreateFinish(providerInstances, req[r].ticket, Val(req[r].chosenProvider))
     IN /\ providerInstances' = g.instances
        /\ req' = [req EXCEPT ![r].instance = g.instance, ![r].pc = "returned"]
  /\ UNCHANGED <<build, serial, res, priceDataReady, providers, selVars, resolveVars, adminVars>>

\* a rejection that leaves a marker in the cache
CacheReject_storesFailure(r) ==
  /\ req[r].pc = "constructing"
  /\ req' = [req EXCEPT ![r].pc = "rejected"]
  /\ providerInstances' =
       mapSet(providerInstances, Val(req[r].key),
              newInstance(0, Val(req[r].chosenProvider)))
  /\ UNCHANGED <<build, serial, res, priceDataReady, providers,
                 selVars, resolveVars, adminVars>>

\* the factory's promise rejected: getOrCreateProvider rejects
CacheReject(r) ==
  /\ req[r].pc = "constructing"
  /\ req' = [req EXCEPT ![r].pc = "rejected"]
  /\ UNCHANGED <<build, providerInstances, serial, res, priceDataReady, providers,
                 selVars, resolveVars, adminVars>>

\* the caller is through with the instance; the slot takes the next call
CacheRelease(r) ==
  /\ req[r].pc \in {"returned", "rejected"}
  /\ req' = [q \in Req |-> IF q = r THEN idleRequest
                            ELSE [req[q] EXCEPT !.joined = @ \ {r}]]
  /\ UNCHANGED <<build, providerInstances, serial, res, priceDataReady, providers,
                 selVars, resolveVars, adminVars>>

NextCache ==
  \/ \E r \in Req :
       \/ CacheCall(r)
       \/ CacheResolve(r)
       \/ CacheReject(r)
       \/ CacheRelease(r)
  \/ clearCache

SpecCache == Init /\ [][NextCache]_vars

paidPricing(inputCost, outputCost) ==
  Some([inputCostPerMillionTokens |-> Some(inputCost),
        outputCostPerMillionTokens |-> Some(outputCost),
        costPerRequest |-> None])

servedModel(canonical, pricing) ==
  [canonical_slug |-> canonical, exposed_slug |-> Some("m1"), pricing |-> pricing]

\* a catalog in which two providers differ in type and in id: openai with
\* id compatible-x, openai-compatible with id x; and a third that needs a
\* token exchange
KeyCatalog ==
  << [id |-> "compatible-x", type |-> "openai", apiKey |-> "k1",
      models |-> << servedModel("gpt", None) >>],
     [id |-> "x", type |-> "openai-compatible", apiKey |-> "k2",
      models |-> << servedModel("gpt", None) >>],
     [id |-> "p2", type |-> "copilot", apiKey |-> "k3",
      models |-> << servedModel("cop", None) >>] >>

InitKeys ==
  /\ priceDataReady = TRUE
  /\ providers = KeyCatalog
  /\ SelIdle
  /\ ResolveIdle
  /\ build \in Builds
  /\ providerInstances = <<>>
  /\ serial = 0
  /\ req = [r \in Req |-> idleRequest]
  /\ res = [r \in Req |-> freshResponse]
  /\ AdminIdle

SpecKeys == InitKeys /\ [][NextCache]_vars

(* ------------------------ CopilotTokenManager ------------------------- *)

\* const bufferDuration = 5 * 60 * 1000
bufferDuration == 1

isTokenValid_noBuffer(meta, t) ==
  IF meta = None THEN FALSE ELSE t < Val(meta).expiresAt

\* CopilotTokenManager.isTokenValid; t is Date.now()
isTokenValid(meta, t) ==
  IF meta = None THEN FALSE ELSE t < Val(meta).expiresAt - bufferDuration

\* Map.prototype.get on tokenCache: None is undefined
tokenCacheGet(cache, oauthToken) ==
  IF oauthToken \in DOMAIN cache THEN Some(cache[oauthToken]) ELSE None

\* CopilotTokenManager.fetchMeta when the endpoint answers at time t with a
\* token that lives ttl: {token, expiresAt}
fetchMeta(t, ttl) == [token |-> [issuedAt |-> t, exp |-> t + ttl], expiresAt |-> t + ttl]

\* the check at the head of getBearerToken
invalidCopilotProvider(provider) ==
  provider.type # "copilot" \/ provider.oauthToken = None

\* the 'copilot' factory: createOpenAICompatible with the bearer token as apiKey
copilotInstance(ticket, provider, token) ==
  newInstance(ticket, [provider EXCEPT !.apiKey = token])

\* one copilot provider with an OAuth token and one without
CopilotCatalog ==
  << [id |-> "p1", type |-> "copilot", apiKey |-> "", oauthToken |-> Some("gho1"),
      models |-> << servedModel("cop", None) >>],
     [id |-> "p2", type |-> "copilot", apiKey |-> "", oauthToken |-> None,
      models |-> << servedModel("cop", None) >>] >>

InitCopilot ==
  /\ priceDataReady = TRUE
  /\ providers = CopilotCatalog
  /\ SelIdle
  /\ ResolveIdle
  /\ ExecIdle
  /\ AdminIdle

\* time passes
Tick ==
  /\ now < MaxTime
  /\ now' = now + 1
  /\ UNCHANGED <<tokenCache, tokenCall, storeVars, dbData, cfgPc, catalogRead, configModels,
                 modelsResponse, priceDataReady, providers, selVars, resolveVars, execVars>>

\* execute calls getOrCreateProvider for a copilot provider; on a miss the
\* factory calls getBearerToken, which throws, returns the cached token or
\* starts a fetch
CopilotCall(r) ==
  /\ req[r].pc = "idle"
  /\ \E i \in DOMAIN providers :
       LET provider == providers[i]
           g == getOrCreateBegin(build, providerInstances, serial, provider)
           rq == callOf(r, provider, g)
           meta == tokenCacheGet(tokenCache, Val(provider.oauthToken))
       IN /\ g.serial <= MaxHandles
          /\ serial' = g.serial
          /\ IF g.outcome = "hit"
               THEN /\ providerInstances' = providerInstances
                    /\ req' = [req EXCEPT ![r] = [rq EXCEPT !.pc = "returned"]]
                    /\ tokenCall' = [tokenCall EXCEPT ![r] =
                         [idleTokenCall EXCEPT !.pc = "returned", !.usedAt = Some(now)]]
             ELSE IF invalidCopilotProvider(provider)
               THEN /\ providerInstances' = providerInstances
                    /\ req' = [req EXCEPT ![r] = [rq EXCEPT !.pc = "rejected"]]
                    /\ tokenCall' = [tokenCall EXCEPT ![r] =
                         [idleTokenCall EXCEPT !.pc = "rejected"]]
             ELSE IF isTokenValid(meta, now)
               THEN LET built == mapSet(providerInstances, cacheKey(provider),
                                        copilotInstance(g.serial, provider, Val(meta).token))
                    IN /\ providerInstances' = built
                       /\ req' = [req EXCEPT ![r] =
                            [rq EXCEPT !.pc = "returned",
                                       !.instance = Some(built[cacheKey(provider)])]]
                       /\ tokenCall' = [tokenCall EXCEPT ![r] =
                            [pc |-> "returned", fetched |-> FALSE, returned |-> meta,
                             usedAt |-> Some(now)]]
             ELSE /\ providerInstances' = providerInstances
                  /\ req' = [req EXCEPT ![r] = [rq EXCEPT !.pc = "constructing"]]
                  /\ tokenCall' = [tokenCall EXCEPT ![r] =
                       [idleTokenCall EXCEPT !.pc = "fetching", !.fetched = TRUE]]
  /\ UNCHANGED <<now, tokenCache, storeVars, dbData, cfgPc, catalogRead, configModels,
                 modelsResponse, build, res, priceDataReady, providers, selVars,
                 resolveVars>>

\* the token endpoint answered: refreshMeta stores the meta, getBearerToken
\* returns its token, the factory builds the instance, getOrCreateProvider
\* stores and returns it
FetchResolve(r) ==
  /\ tokenCall[r].pc = "fetching"
  /\ \E ttl \in 1 .. MaxTTL :
       LET provider == Val(req[r].chosenProvider)
           meta == fetchMeta(now, ttl)
           built == mapSet(providerInstances, cacheKey(provider),
                           copilotInstance(req[r].ticket, provider, meta.token))
       IN /\ tokenCache' = mapSet(tokenCache, Val(provider.oauthToken), meta)
          /\ providerInstances' = built
          /\ req' = [req EXCEPT ![r].pc = "returned",
                                ![r].instance = Some(built[cacheKey(provider)])]
          /\ tokenCall' = [tokenCall EXCEPT ![r] =
               [pc |-> "returned", fetched |-> TRUE, returned |-> Some(meta),
                usedAt |-> Some(now)]]
  /\ UNCHANGED <<now, storeVars, dbData, cfgPc, catalogRead, configModels, modelsResponse,
                 build, serial, res, priceDataReady, providers, selVars, resolveVars>>

\* the fetch failed or the endpoint answered not ok: fetchMeta throws
FetchReject(r) ==
  /\ tokenCall[r].pc = "fetching"
  /\ req' = [req EXCEPT ![r].pc = "rejected"]
  /\ tokenCall' = [tokenCall EXCEPT ![r].pc = "rejected"]
  /\ UNCHANGED <<now, tokenCache, storeVars, dbData, cfgPc, catalogRead, configModels,
                 modelsResponse, build, providerInstances, serial, res, priceDataReady,
                 providers, selVars, resolveVars>>

\* the request is over; the slot takes the next one
CopilotRelease(r) ==
  /\ req[r].pc \in {"returned", "rejected"}
  /\ req' = [q \in Req |-> IF q = r THEN idleRequest
                            ELSE [req[q] EXCEPT !.joined = @ \ {r}]]
  /\ tokenCall' = [tokenCall EXCEPT ![r] = idleTokenCall]
  /\ UNCHANGED <<now, tokenCache, storeVars, dbData, cfgPc, catalogRead, configModels,
                 modelsResponse, build, providerInstances, serial, res, priceDataReady,
                 providers, selVars, resolveVars>>

NextCopilot ==
  \/ Tick
  \/ CopilotCall(1)
  \/ FetchResolve(1)
  \/ FetchReject(1)
  \/ CopilotRelease(1)
  \/ clearCache

SpecCopilot == InitCopilot /\ [][NextCopilot]_vars

(* ------------------- configuration updates and reloads ---------------- *)

\* two versions of the configuration: the second rotates the key of p1,
\* changes its price and replaces p2 by p3
ConfigA ==
  << [id |-> "p1", type |-> "openai", apiKey |-> "k1",
      models |-> << servedModel("gpt", paidPricing(1, 1)) >>],
     [id |-> "p2", type |-> "openai", apiKey |-> "k1",
      models |-> << servedModel("gpt", paidPricing(2, 2)) >>] >>

ConfigB ==
  << [id |-> "p1", type |-> "openai", apiKey |-> "k2",
      models |-> << servedModel("gpt", paidPricing(2, 2)) >>],
     [id |-> "p3", type |-> "anthropic", apiKey |-> "k3",
      models |-> << servedModel("claude", paidPricing(1, 1)) >>] >>

Configs == {ConfigA, ConfigB}

\* the listeners registered for the manager's 'configUpdated' event: no
\* component calls events.on
configUpdatedListeners == {}

\* this.events.emit('configUpdated', this.config): every listener runs
emitConfigUpdated(instances) ==
  IF "clearCache" \in configUpdatedListeners THEN <<>> ELSE instances

InitReload ==
  /\ priceDataReady = TRUE
  /\ providers = ConfigA
  /\ SelIdle
  /\ ResolveIdle
  /\ build \in Builds
  /\ providerInstances = <<>>
  /\ serial = 0
  /\ req = [r \in Req |-> idleRequest]
  /\ res = [r \in Req |-> freshResponse]
  /\ AdminIdle

\* the operator edits the configuration file on disk
EditFile ==
  /\ \E c \in Configs : c # dbData /\ dbData' = c
  /\ UNCHANGED <<tokenVars, storeVars, cfgPc, catalogRead, configModels, modelsResponse,
                 priceDataReady,
                 providers, selVars, resolveVars, execVars>>

\* updateConfig up to `await this.db.write()`: the new configuration is in
\* force at once
updateConfigBegin ==
  /\ cfgPc = cfgIdle
  /\ \E newConfig \in Configs :
       /\ providers' = newConfig
       /\ cfgPc' = [op |-> "update", config |-> newConfig]
  /\ UNCHANGED <<tokenVars, storeVars, dbData, catalogRead, configModels, modelsResponse,
                 priceDataReady,
                 selVars, resolveVars, execVars>>

\* the write finished: the file holds the configuration, the event is emitted
updateConfigFinish ==
  /\ cfgPc.op = "update"
  /\ dbData' = cfgPc.config
  /\ providerInstances' = emitConfigUpdated(providerInstances)
  /\ cfgPc' = cfgIdle
  /\ UNCHANGED <<tokenVars, storeVars, catalogRead, configModels, modelsResponse,
                 priceDataReady, providers,
                 selVars, resolveVars, build, serial, req, res>>

\* reloadConfig up to `await this.db.read()`
reloadConfigBegin ==
  /\ cfgPc = cfgIdle
  /\ cfgPc' = [op |-> "reload", config |-> <<>>]
  /\ UNCHANGED <<tokenVars, storeVars, dbData, catalogRead, configModels, modelsResponse,
                 priceDataReady,
                 providers, selVars, resolveVars, execVars>>

\* the read finished: the configuration is what the file holds, the event
\* is emitted
reloadConfigFinish ==
  /\ cfgPc.op = "reload"
  /\ providers' = dbData
  /\ providerInstances' = emitConfigUpdated(providerInstances)
  /\ cfgPc' = cfgIdle
  /\ UNCHANGED <<tokenVars, storeVars, dbData, catalogRead, configModels, modelsResponse,
                 priceDataReady,
                 selVars, resolveVars, build, serial, req, res>>

\* getBestProviderForModel up to `await this.filterAvailableCandidates`:
\* getProvidersForModel reads the catalog once and resolves the candidates
RouteResolve ==
  /\ selPc = "idle"
  /\ catalogRead' = providers
  /\ modelname' = "m1"
  /\ candidates' = getProvidersForModel(providers, "m1")
  /\ selPc' = "input"
  /\ zeroCost' = <<>>
  /\ paid' = <<>>
  /\ selectedCandidate' = None
  /\ UNCHANGED <<tokenVars, storeVars, dbData, cfgPc, configModels, modelsResponse,
                 priceDataReady, providers,
                 matches, resolvePc, execVars>>

\* execute for the selected candidate: getOrCreateProvider, and the request
\* is served
RouteExecute ==
  /\ selPc = "done"
  /\ selectedCandidate # None
  /\ LET g == getOrCreateBegin(build, providerInstances, serial,
                                Val(selectedCandidate).provider)
     IN /\ g.outcome \in {"hit", "built"}
        /\ g.serial <= MaxHandles
        /\ providerInstances' = g.instances
        /\ serial' = g.serial
  /\ selPc' = "idle"
  /\ UNCHANGED <<candidates, zeroCost, paid, selectedCandidate, build, req, res,
                 priceDataReady, providers, resolveVars, adminVars>>

NextReload ==
  \/ EditFile
  \/ updateConfigBegin
  \/ updateConfigFinish
  \/ reloadConfigBegin
  \/ reloadConfigFinish
  \/ RouteResolve
  \/ Select
  \/ RouteExecute
  \/ clearCache

SpecReload == InitReload /\ [][NextReload]_vars

(* ======================= claims: selection policy ===================== *)

PricingFields == {"inputCostPerMillionTokens", "outputCostPerMillionTokens", "costPerRequest"}

\* zero-cost as the data model defines it: pricing exists, some field is
\* defined, every defined field is 0
ZeroCostByDefinition(model) ==
  /\ model.pricing # None
  /\ \E f \in PricingFields : Val(model.pricing)[f] # None
  /\ \A f \in PricingFields :
       Val(model.pricing)[f] # None => Val(model.pricing)[f] = Some(0)

RECURSIVE SeqToSet(_)
SeqToSet(seq) == IF seq = <<>> THEN {} ELSE {Head(seq)} \cup SeqToSet(Tail(seq))

\* C1: if any candidate is zero-cost, the selection returns a zero-cost
\* candidate of the list, never a paid one, whatever the random draw
C1_ZeroCostPreferred ==
  (selPc = "done" /\ \E i \in DOMAIN candidates : ZeroCostByDefinition(candidates[i].model))
    => /\ selectedCandidate # None
       /\ Val(selectedCandidate) \in SeqToSet(candidates)
       /\ ZeroCostByDefinition(Val(selectedCandidate).model)

\* a paid candidate comes first, a zero-cost one second, and the second is returned
C1_Witness ==
  /\ selPc = "done"
  /\ Len(candidates) = 2
  /\ ~ZeroCostByDefinition(candidates[1].model)
  /\ ZeroCostByDefinition(candidates[2].model)
  /\ selectedCandidate = Some(candidates[2])

\* C7: isZeroCost is true exactly for the candidates that are zero-cost by
\* the definition of the data model; absent pricing is never zero-cost
C7_IsZeroCostIff ==
  selPc = "done" =>
    /\ \A i \in DOMAIN candidates :
         (candidates[i] \in SeqToSet(zeroCost)) <=> ZeroCostByDefinition(candidates[i].model)
    /\ \A i \in DOMAIN candidates :
         isZeroCost(priceDataReady, candidates[i].model)
           <=> ZeroCostByDefinition(candidates[i].model)
    /\ \A i \in DOMAIN candidates :
         candidates[i].model.pricing = None => candidates[i] \in SeqToSet(paid)

\* {input: 0} with output and request cost undefined is classified zero-cost,
\* a candidate without pricing is classified paid
C7_Witness ==
  /\ selPc = "done"
  /\ Len(candidates) = 2
  /\ candidates[1].model.pricing =
       Some([inputCostPerMillionTokens |-> Some(0),
             outputCostPerMillionTokens |-> None,
             costPerRequest |-> None])
  /\ candidates[2].model.pricing = None
  /\ zeroCost = <<candidates[1]>>
  /\ paid = <<candidates[2]>>

InputCost(c) == Val(Val(c.model.pricing).inputCostPerMillionTokens)

OutputCost(c) == Val(Val(c.model.pricing).outputCostPerMillionTokens)

CompletePaid(c) ==
  /\ ~ZeroCostByDefinition(c.model)
  /\ c.model.pricing # None
  /\ Val(c.model.pricing).inputCostPerMillionTokens # None
  /\ Val(c.model.pricing).outputCostPerMillionTokens # None

\* C8: given only paid candidates with input and output cost defined, the
\* selection returns one whose (input, output) pair is lexicographically least
C8_LowestPaid ==
  (selPc = "done" /\ \A i \in DOMAIN candidates : CompletePaid(candidates[i]))
    => /\ selectedCandidate # None
       /\ Val(selectedCandidate) \in SeqToSet(candidates)
       /\ \A i \in DOMAIN candidates :
            \/ InputCost(Val(selectedCandidate)) < InputCost(candidates[i])
            \/ /\ InputCost(Val(selectedCandidate)) = InputCost(candidates[i])
               /\ OutputCost(Val(selectedCandidate)) <= OutputCost(candidates[i])

\* B(input 1, output 2) before C(input 1, output 1): the tie on input is
\* broken by the lower output cost and C is returned
C8_Witness ==
  /\ selPc = "done"
  /\ Len(candidates) = 2
  /\ CompletePaid(candidates[1]) /\ CompletePaid(candidates[2])
  /\ InputCost(candidates[1]) = 1 /\ OutputCost(candidates[1]) = 2
  /\ InputCost(candidates[2]) = 1 /\ OutputCost(candidates[2]) = 1
  /\ selectedCandidate = Some(candidates[2])

(* ======================= claims: candidate resolver =================== *)

\* the exposed identifier as the data model states it: exposed_slug, or
\* canonical_slug when exposed_slug is absent
ExposedIdentifier(model) ==
  IF model.exposed_slug = None THEN model.canonical_slug ELSE Val(model.exposed_slug)

\* catalog positions <<provider index, model index>> that serve the request
MatchingPositions ==
  {pos \in (DOMAIN providers) \X (1 .. MaxModels + 1) :
     /\ pos[2] \in DOMAIN providers[pos[1]].models
     /\ ExposedIdentifier(providers[pos[1]].models[pos[2]]) = modelname}

PositionBefore(p, q) == p[1] < q[1] \/ (p[1] = q[1] /\ p[2] < q[2])

PositionRank(p) == Cardinality({q \in MatchingPositions : PositionBefore(q, p)}) + 1

\* C6: the resolver returns exactly the (provider, model) pairs whose exposed
\* identifier (exposed_slug, or canonical_slug when exposed_slug is absent)
\* equals the request, in catalog order, none missing and none extra
C6_ResolveExact ==
  resolvePc = "done" =>
    /\ Len(matches) = Cardinality(MatchingPositions)
    /\ \A pos \in MatchingPositions :
         matches[PositionRank(pos)] =
           [provider |-> providers[pos[1]], model |-> providers[pos[1]].models[pos[2]]]

(* ==================== claims: provider instance cache ================= *)

\* C2: a call of getOrCreateProvider made while another call's construction
\* for the same key is pending makes no factory call of its own, so the two
\* first uses amount to one construction
C2_OneConstruction ==
  \A r \in Req : req[r].joined # {} => ~req[r].calledFactory

\* C3: a caller that began while another call's construction for the same
\* key was pending returns only after that construction, and with the very
\* instance the first caller got
C3_SameHandle ==
  \A r2 \in Req : \A r1 \in req[r2].joined :
    (req[r2].pc = "returned" /\ req[r1].pc # "rejected")
      => /\ req[r1].pc = "returned"
         /\ req[r1].instance = req[r2].instance

(* ======================= claims: response translator ================== *)

Last(seq) == seq[Len(seq)]

StreamOpened(r) == req[r].body.stream /\ res[r].written # <<>>

\* C4: once a streaming request has opened its stream, the handler ends the
\* connection and the sentinel `data: [DONE]` is the last thing written
\* before it, when the backend succeeds and when it fails mid-stream
C4_SentinelLast ==
  \A r \in Req :
    /\ (StreamOpened(r) /\ req[r].pc \in {"done", "failed"}) => res[r].ended
    /\ (StreamOpened(r) /\ res[r].ended) => Last(res[r].written) = doneSentinel

\* the backend failed after the first fragment
C4_Witness ==
  /\ req[1].pc = "failed"
  /\ Len(req[1].frags) = 1
  /\ res[1].ended
  /\ Len(res[1].written) = 4
  /\ res[1].written[2].kind = "content"
  /\ res[1].written[3] = errorNotice
  /\ res[1].written[4] = doneSentinel

\* C5: a successful streaming request has written one role chunk, one
\* content chunk per backend fragment in the backend's order, one final chunk
\* with the backend's finish reason, then the sentinel, and nothing else
C5_FrameOrder ==
  \A r \in Req :
    (req[r].pc = "done" /\ req[r].body.stream /\ res[r].statusCode = 200)
      => LET w == res[r].written
             count == Len(req[r].frags)
         IN /\ Len(w) = count + 3
            /\ w[1].kind = "role"
            /\ \A i \in 1 .. count :
                 w[i + 1].kind = "content" /\ w[i + 1].content = Some(req[r].frags[i])
            /\ w[count + 2].kind = "final"
            /\ w[count + 2].finish_reason = req[r].finishReason
            /\ w[count + 3] = doneSentinel
            /\ res[r].ended

\* the backend sent "x" then "y" and finished with "length"
C5_Witness ==
  /\ req[1].pc = "done"
  /\ req[1].body.stream
  /\ req[1].frags = << "x", "y" >>
  /\ req[1].finishReason = Some("length")
  /\ Len(res[1].written) = 5
  /\ res[1].written[2].content = Some("x")
  /\ res[1].written[3].content = Some("y")

NonStreamingSuccess(r) ==
  req[r].pc = "done" /\ ~req[r].body.stream /\ res[r].statusCode = 200

\* C9: a non-streaming request with n >= 1 issues n generations and answers
\* with n choices, choice i (index i - 1) carrying the text and the finish
\* reason of the i-th generation
C9_NChoices ==
  \A r \in Req :
    NonStreamingSuccess(r)
      => LET choices == Val(res[r].json).choices IN
         /\ Len(req[r].gens) = req[r].body.n
         /\ Len(choices) = req[r].body.n
         /\ \A i \in 1 .. Len(choices) :
              /\ choices[i].index = i - 1
              /\ i \in DOMAIN req[r].gens
              /\ choices[i].content = Val(req[r].gens[i]).text
              /\ choices[i].finish_reason = Val(req[r].gens[i]).finishReason

\* token counts of one generation: the SDK reports them as promptTokens /
\* completionTokens or as inputTokens / outputTokens
PromptCount(result) ==
  IF result.usage.promptTokens # None THEN Val(result.usage.promptTokens)
  ELSE IF result.usage.inputTokens # None THEN Val(result.usage.inputTokens) ELSE 0

CompletionCount(result) ==
  IF result.usage.completionTokens # None THEN Val(result.usage.completionTokens)
  ELSE IF result.usage.outputTokens # None THEN Val(result.usage.outputTokens) ELSE 0

RECURSIVE TotalOver(_, _, _)
TotalOver(Count(_), gens, upTo) ==
  IF upTo = 0 THEN 0 ELSE TotalOver(Count, gens, upTo - 1) + Count(Val(gens[upTo]))

\* C10: every successful non-streaming response carries a usage object whose
\* prompt_tokens and completion_tokens are the sums over all generations of
\* the request and whose total_tokens is their sum
C10_UsageSummed ==
  \A r \in Req :
    NonStreamingSuccess(r)
      => /\ Val(res[r].json).usage # None
         /\ LET usage == Val(Val(res[r].json).usage) IN
              /\ usage.prompt_tokens = TotalOver(PromptCount, req[r].gens, Len(req[r].gens))
              /\ usage.completion_tokens
                   = TotalOver(CompletionCount, req[r].gens, Len(req[r].gens))
              /\ usage.total_tokens = usage.prompt_tokens + usage.completion_tokens

(* ========================= claims: error handling ===================== *)

NoCandidate(r) ==
  req[r].pc # "idle" /\ Len(getProvidersForModel(providers, req[r].body.model)) = 0

ErrorAnswer(r, code) ==
  /\ res[r].statusCode = code
  /\ res[r].json # None
  /\ Val(res[r].json).kind = "error"
  /\ res[r].written = <<>>
  /\ res[r].ended

\* C11: a request whose model no provider of the catalog serves is answered
\* with status 404 and a JSON error body; no provider was chosen for it, no
\* factory was called, no instance obtained and no backend call issued
C11_NotConfigured ==
  \A r \in Req :
    NoCandidate(r)
      => /\ ErrorAnswer(r, 404)
         /\ req[r].pc = "done"
         /\ req[r].chosenProvider = None
         /\ req[r].instance = None
         /\ ~req[r].calledFactory
         /\ req[r].calls = <<>>

\* the request for "m3", which the catalog does not hold, was answered
C11_Witness ==
  /\ req[1].body.model = "m3"
  /\ NoCandidate(1)
  /\ res[1].statusCode = 404
  /\ req[1].pc = "done"

\* the request failed as the client sees it: an error answer, or an open
\* stream closed by the error notice without a final chunk
RequestFailed(r) ==
  \/ ErrorAnswer(r, 500)
  \/ /\ res[r].statusCode = 200
     /\ res[r].json = None
     /\ Len(res[r].written) >= 3
     /\ res[r].written[Len(res[r].written) - 1] = errorNotice
     /\ \A i \in DOMAIN res[r].written : res[r].written[i].kind # "final"

\* C12: every backend call of a request goes to the provider and model chosen
\* for it by the one routing decision; when a backend call failed no call was
\* added to those issued at dispatch (one for a stream, at most n otherwise)
\* and the request failed
C12_SingleDecision ==
  \A r \in Req :
    /\ \A i \in DOMAIN req[r].calls :
         /\ req[r].chosenProvider # None
         /\ req[r].calls[i].provider = Val(req[r].chosenProvider).id
         /\ req[r].calls[i].slug = req[r].slug
    /\ req[r].backendFailed
         => /\ Len(req[r].calls) = (IF req[r].body.stream THEN 1 ELSE Len(req[r].gens))
            /\ Len(req[r].calls) <= req[r].body.n
            /\ req[r].pc \in {"done", "failed"}
            /\ RequestFailed(r)

\* the only call of a request for "m1", which two providers serve, failed
C12_Witness ==
  /\ req[1].backendFailed
  /\ req[1].body.model = "m1"
  /\ ~req[1].body.stream
  /\ Len(getProvidersForModel(providers, "m1")) = 2
  /\ Len(req[1].calls) = 1
  /\ res[1].statusCode = 500

\* C13: a non-streaming request for n > 1 choices one of whose generations
\* failed is answered with an error: no completion object is sent
C13_AllOrNothing ==
  \A r \in Req :
    (~req[r].body.stream /\ req[r].body.n > 1 /\ req[r].backendFailed)
      => /\ ErrorAnswer(r, 500)
         /\ res[r].endCount = 1

\* of three generations one had resolved when another failed
C13_Witness ==
  /\ req[1].body.n = 3
  /\ ~req[1].body.stream
  /\ Len(req[1].gens) = 3
  /\ \E i \in DOMAIN req[1].gens : req[1].gens[i] # None
  /\ \E i \in DOMAIN req[1].gens : req[1].gens[i] = None
  /\ req[1].backendFailed
  /\ res[1].statusCode = 500

(* ======================= claims: streaming failures =================== *)

\* C14: a streaming request whose backend call failed before it produced a
\* fragment is answered with status 500 and a JSON error body; no stream was
\* opened (no status 200, no role frame)
C14_PreStreamError ==
  \A r \in Req :
    (req[r].body.stream /\ req[r].backendFailed /\ req[r].frags = <<>>)
      => /\ ErrorAnswer(r, 500)
         /\ \A i \in DOMAIN res[r].written : res[r].written[i].kind # "role"

\* the frames a stream holds after its backend failed: the role chunk, one
\* content chunk per fragment received, the error notice, the sentinel
FramesOfFailedStream(b, rq) ==
  << roleChunk(wireModelName(b, Val(rq.chosenModel))) >>
    \o [i \in 1 .. Len(rq.frags) |->
          contentChunk(wireModelName(b, Val(rq.chosenModel)), rq.frags[i])]
    \o << errorNotice, doneSentinel >>

\* C15: when the backend failed on an open stream the status stays 200, the
\* frames after the content received so far are the error notice and the
\* sentinel and nothing else, and the connection was ended once
C15_MidStreamFailure ==
  \A r \in Req :
    (req[r].body.stream /\ req[r].backendFailed)
      => /\ res[r].statusCode = 200
         /\ res[r].json = None
         /\ res[r].written = FramesOfFailedStream(build, req[r])
         /\ res[r].ended
         /\ res[r].endCount = 1

\* the backend failed after the fragments "x" and "y"
C15_Witness ==
  /\ req[1].body.stream
  /\ req[1].backendFailed
  /\ req[1].frags = << "x", "y" >>
  /\ Len(res[1].written) = 5
  /\ res[1].written[4] = errorNotice
  /\ res[1].endCount = 1

C17_StopsPulling ==
  [][\A r \in Req :
       (req[r].pc = "streaming" /\ ~res[r].connected)
         => req'[r].frags = req[r].frags]_vars

(* ===================== claims: construction failures ================== *)

UnsupportedChosen(r) ==
  /\ req[r].chosenProvider # None
  /\ factoryKind(build, Val(req[r].chosenProvider).type) = "none"

\* C18: a request routed to a provider whose type has no factory fails in
\* getOrCreateProvider with an error naming the type and the supported
\* types, and is answered with status 500 and a JSON error body
C18_UnsupportedType ==
  \A r \in Req :
    UnsupportedChosen(r)
      => /\ req[r].error # None
         /\ Val(req[r].error).type = Val(req[r].chosenProvider).type
         /\ Val(req[r].error).supported = getSupportedProviders(build)
         /\ req[r].instance = None
         /\ req[r].pc = "done"
         /\ ErrorAnswer(r, 500)

\* C19: no request handler ends with a fault that nothing caught; a handler
\* that is through has answered the request or closed its stream
C19_NoUnhandledFault ==
  \A r \in Req :
    /\ req[r].pc # "fault"
    /\ req[r].pc \in {"done", "failed"} => res[r].ended

(* ========================= claims: handle cache ======================= *)

\* C20: a handle stored for a key stays the handle of that key until the
\* cache is cleared; a call that finds its key cached returns that handle
\* and calls no factory; a call that finds its key missing (never built, or
\* dropped by clearCache) calls the factory
C20_Retained ==
  [][/\ \A key \in DOMAIN providerInstances :
          \/ providerInstances' = <<>>
          \/ /\ key \in DOMAIN providerInstances'
             /\ providerInstances'[key] = providerInstances[key]
     /\ \A r \in Req :
          (req[r].pc = "idle" /\ req'[r].pc # "idle" /\ req'[r].key # None)
            => IF Val(req'[r].key) \in DOMAIN providerInstances
                 THEN /\ req'[r].instance = Some(providerInstances[Val(req'[r].key)])
                      /\ ~req'[r].calledFactory
                      /\ serial' = serial
                 ELSE req'[r].calledFactory \/ req'[r].error # None
                        \/ req'[r].pc = "rejected"]_vars

(* ------------------------- claims C21 .. C30 -------------------------- *)

Range(seq) == {seq[i] : i \in DOMAIN seq}

\* C21: once updateConfig or reloadConfig has completed and its change
\* notification has been delivered, every handle in the cache was built from
\* the credentials the configuration now holds for its provider.
C21_CacheInvalidated ==
  cfgPc = cfgIdle =>
    \A key \in DOMAIN providerInstances :
      \E i \in DOMAIN providers :
        /\ cacheKey(providers[i]) = key
        /\ providers[i].apiKey = providerInstances[key].apiKey

\* C23: the candidates of a request are those of the one catalog it read,
\* and the partitions and the selected candidate are taken from them, whatever
\* updateConfig and reloadConfig did in between.
C23_OneSnapshot ==
  selPc \in {"input", "done"} /\ catalogRead # <<>> =>
    /\ candidates = getProvidersForModel(catalogRead, modelname)
    /\ selPc = "done" =>
         /\ Range(zeroCost) \cup Range(paid) = Range(candidates)
         /\ selectedCandidate \subseteq Range(candidates)
         /\ \A c \in selectedCandidate :
              \E i \in DOMAIN catalogRead :
                /\ catalogRead[i] = c.provider
                /\ c.model \in Range(catalogRead[i].models)

\* a selection is made although the configuration in force is no longer
\* the one the request read, and the selected pair is not in it any more
C23_Witness ==
  /\ selPc = "done"
  /\ cfgPc = cfgIdle
  /\ catalogRead # <<>>
  /\ providers # catalogRead
  /\ selectedCandidate # None
  /\ Val(selectedCandidate) \notin Range(getProvidersForModel(providers, modelname))

(* ----------------------------- GET /v1/models -------------------------- *)

\* `a ?? b`
Nullish(opt, default) == IF opt = None THEN default ELSE Val(opt)

\* Set.prototype.add on a Set kept in insertion order
setAdd(seq, v) == IF v \in Range(seq) THEN seq ELSE Append(seq, v)

\* the inner loop `for (const model of provider.models) allModels.add(...)`
RECURSIVE addModelsOf(_, _, _)
addModelsOf(allModels, models, j) ==
  IF j > Len(models) THEN allModels
  ELSE addModelsOf(setAdd(allModels, Nullish(models[j].exposed_slug,
                                             models[j].canonical_slug)),
                   models, j + 1)

\* the outer loop `for (const provider of providers)`
RECURSIVE addProvidersFrom(_, _, _)
addProvidersFrom(allModels, catalog, i) ==
  IF i > Len(catalog) THEN allModels
  ELSE addProvidersFrom(addModelsOf(allModels, catalog[i].models, 1), catalog, i + 1)

\* the routes that answer GET /v1/models: two of them list the models of the
\* providers, the third lists config.models
ModelsRoutes == {"providers", "models"}

\* the ids of the `data` array of the response, in order
modelsRoute(route, catalog, models) ==
  IF route = "providers"
    THEN addProvidersFrom(<<>>, catalog, 1)
    ELSE [i \in DOMAIN models |-> models[i].exposed_slug]

\* models as /v1/models sees them
ListedModels ==
  { [canonical_slug |-> "m1", exposed_slug |-> None, pricing |-> None],
    [canonical_slug |-> "gpt", exposed_slug |-> Some("m1"), pricing |-> None],
    [canonical_slug |-> "gpt", exposed_slug |-> Some("m2"), pricing |-> None] }

\* entries of config.models
ConfigModels ==
  { [exposed_slug |-> s,
     providers |-> << [providerId |-> p, provider_model_slug |-> "gpt"] >>] :
    s \in Slugs, p \in {"p1", "p2"} }

InitModels ==
  /\ \/ /\ \E np \in 0 .. MaxProviders :
             \E lens \in [1 .. np -> 0 .. MaxModels] :
               \E ms \in [1 .. np -> [1 .. MaxModels -> ListedModels]] :
                 providers = [i \in 1 .. np |->
                                CatalogProvider(i, [j \in 1 .. lens[i] |-> ms[i][j]])]
        /\ configModels = <<>>
     \/ /\ providers = <<>>
        /\ \E n \in 1 .. MaxModels : configModels \in [1 .. n -> ConfigModels]
  /\ dbData = providers
  /\ cfgPc = cfgIdle
  /\ catalogRead = <<>>
  /\ modelsResponse = None
  /\ TokenIdle
  /\ StoreIdle
  /\ priceDataReady = TRUE
  /\ SelIdle
  /\ ResolveIdle
  /\ ExecIdle

\* a GET /v1/models request answered by one of the routes
ListModels ==
  /\ modelsResponse = None
  /\ \E route \in ModelsRoutes :
       modelsResponse' = Some([route |-> route,
                               data |-> modelsRoute(route, providers, configModels)])
  /\ UNCHANGED <<dbData, cfgPc, catalogRead, configModels, priceDataReady, providers,
                 selVars, resolveVars, execVars, tokenVars, storeVars>>

NextModels == ListModels

SpecModels == InitModels /\ [][NextModels]_vars

\* the identifiers the configuration exposes to the route that answered
exposedIdentifiers(route) ==
  IF route = "providers"
    THEN {Nullish(providers[i].models[j].exposed_slug,
                  providers[i].models[j].canonical_slug) :
            <<i, j>> \in {x \in (DOMAIN providers) \X (1 .. MaxModels + 1) :
                            x[2] \in DOMAIN providers[x[1]].models}}
    ELSE {configModels[i].exposed_slug : i \in DOMAIN configModels}

\* C22: the response of GET /v1/models holds every exposed model identifier
\* of the configuration, and each of them exactly once.
C22_ListedOnce ==
  \A r \in modelsResponse :
    /\ Range(r.data) = exposedIdentifiers(r.route)
    /\ \A i, j \in DOMAIN r.data : r.data[i] = r.data[j] => i = j

\* C24: every backend call of a request names the canonical_slug of the
\* selected model, and the `model` field of every completion body and stream
\* chunk answered is the identifier the client asked for.
C24_CanonicalToBackend ==
  \A r \in Req :
    /\ \A i \in DOMAIN req[r].calls :
         req[r].calls[i].slug = Some(Val(req[r].chosenModel).canonical_slug)
    /\ \A body \in res[r].json :
         body.kind = "completion" => body.model = Some(req[r].body.model)
    /\ \A i \in DOMAIN res[r].written :
         res[r].written[i].kind \in {"role", "content", "final"}
           => res[r].written[i].model = Some(req[r].body.model)

HasInputCost(c) ==
  c.model.pricing # None /\ Val(c.model.pricing).inputCostPerMillionTokens # None

HasOutputCost(c) ==
  c.model.pricing # None /\ Val(c.model.pricing).outputCostPerMillionTokens # None

BothCosts(c) == HasInputCost(c) /\ HasOutputCost(c)

\* the position of candidate c in a list without repetitions
PositionIn(list, c) == CHOOSE i \in DOMAIN list : list[i] = c

\* C25: in the paid ordering every candidate with both costs defined stands
\* before every candidate with a cost missing, whatever the numbers; a
\* candidate with incomplete pricing is selected only if no paid candidate has
\* complete pricing.
C25_IncompleteLast ==
  selPc = "done" =>
    LET ordering == sortPaid(paid) IN
    /\ \A i, j \in DOMAIN ordering :
         BothCosts(ordering[i]) /\ ~BothCosts(ordering[j]) => i < j
    /\ \A c \in selectedCandidate :
         zeroCost = <<>> /\ ~BothCosts(c) => \A i \in DOMAIN paid : ~BothCosts(paid[i])

\* (input 1, output missing) stands first in the catalog and loses to
\* (input 2, output 2)
C25_Witness ==
  /\ selPc = "done"
  /\ zeroCost = <<>>
  /\ Len(paid) = 2
  /\ HasInputCost(paid[1]) /\ InputCost(paid[1]) = 1 /\ ~HasOutputCost(paid[1])
  /\ BothCosts(paid[2]) /\ InputCost(paid[2]) = 2 /\ OutputCost(paid[2]) = 2
  /\ selectedCandidate = Some(paid[2])

\* C26: in the paid ordering every candidate with a defined input cost stands
\* before every candidate whose input cost is undefined, whatever the numbers
\* and also when the former has no output cost.
C26_UndefinedInputLast ==
  selPc = "done" =>
    LET ordering == sortPaid(paid) IN
    \A i, j \in DOMAIN ordering :
      HasInputCost(ordering[i]) /\ ~HasInputCost(ordering[j]) => i < j

\* (input missing, output 1) stands first in the catalog and loses to
\* (input 2, output missing)
C26_Witness ==
  /\ selPc = "done"
  /\ zeroCost = <<>>
  /\ Len(paid) = 2
  /\ ~HasInputCost(paid[1]) /\ HasOutputCost(paid[1]) /\ OutputCost(paid[1]) = 1
  /\ HasInputCost(paid[2]) /\ InputCost(paid[2]) = 2 /\ ~HasOutputCost(paid[2])
  /\ selectedCandidate = Some(paid[2])

\* the sort key of a candidate: its input and output cost, each possibly
\* missing
CostKey(c) ==
  << IF HasInputCost(c) THEN Some(InputCost(c)) ELSE None,
     IF HasOutputCost(c) THEN Some(OutputCost(c)) ELSE None >>

\* C27: paid candidates with equal sort keys keep their catalog order in the
\* paid ordering, and when all keys are equal the first of the catalog is
\* selected.
C27_TiesKeepCatalogOrder ==
  selPc = "done" =>
    LET ordering == sortPaid(paid) IN
    /\ \A i, j \in DOMAIN paid :
         i < j /\ CostKey(paid[i]) = CostKey(paid[j])
           => PositionIn(ordering, paid[i]) < PositionIn(ordering, paid[j])
    /\ (zeroCost = <<>> /\ paid # <<>>
          /\ \A i \in DOMAIN paid : CostKey(paid[i]) = CostKey(paid[1]))
         => selectedCandidate = Some(paid[1])

\* two candidates with the costs (1, missing): the first is selected
C27_Witness ==
  /\ selPc = "done"
  /\ zeroCost = <<>>
  /\ Len(paid) = 2
  /\ CostKey(paid[1]) = << Some(1), None >>
  /\ CostKey(paid[2]) = << Some(1), None >>
  /\ selectedCandidate = Some(paid[1])

(* ----------------- selection while PriceData is not initialized -------- *)

\* the Router asked to select before PriceData.initialize() has run
InitPricing ==
  /\ priceDataReady = FALSE
  /\ \E n \in 1 .. MaxCand :
       \E ps \in [1 .. n -> OptPricing] :
         candidates = [i \in 1 .. n |-> CandidateOf(i, ps[i])]
  /\ zeroCost = <<>>
  /\ paid = <<>>
  /\ selectedCandidate = None
  /\ selPc = "input"
  /\ providers = <<>>
  /\ ResolveIdle
  /\ ExecIdle
  /\ AdminIdle

NextPricing == Select

SpecPricing == InitPricing /\ [][NextPricing]_vars

\* C28: when the pricing lookup fails, isZeroCost answers false for every
\* candidate and does not throw: the classification completes with every
\* candidate in the paid partition.
C28_LookupFailureIsPaid ==
  (selPc # "input" /\ ~priceDataReady) =>
    /\ \A i \in DOMAIN candidates : ~isZeroCost(priceDataReady, candidates[i].model)
    /\ zeroCost = <<>>
    /\ paid = candidates

\* a candidate whose pricing is all zero is classified as paid
C28_Witness ==
  /\ selPc # "input"
  /\ ~priceDataReady
  /\ \E i \in DOMAIN candidates : ZeroCostByDefinition(candidates[i].model)
  /\ paid = candidates

RoutedPricings ==
  { None,
    Some([inputCostPerMillionTokens |-> Some(0), outputCostPerMillionTokens |-> Some(0),
          costPerRequest |-> None]),
    Some([inputCostPerMillionTokens |-> Some(1), outputCostPerMillionTokens |-> Some(1),
          costPerRequest |-> None]),
    Some([inputCostPerMillionTokens |-> Some(1), outputCostPerMillionTokens |-> None,
          costPerRequest |-> None]) }

RoutedModels ==
  [canonical_slug : {"gpt"}, exposed_slug : {Some(s) : s \in Slugs}, pricing : RoutedPricings]

InitRoute ==
  /\ \E np \in 0 .. MaxProviders :
       \E ms \in [1 .. np -> RoutedModels] :
         providers = [i \in 1 .. np |-> CatalogProvider(i, << ms[i] >>)]
  /\ modelname \in Slugs
  /\ matches = <<>>
  /\ resolvePc = "input"
  /\ priceDataReady = TRUE
  /\ SelIdle
  /\ ExecIdle
  /\ AdminIdle

\* Router.getBestProviderForModel as one step: resolve, partition, select
RouteRequest ==
  /\ resolvePc = "input"
  /\ matches' = getProvidersForModel(providers, modelname)
  /\ candidates' = matches'
  /\ resolvePc' = "done"
  /\ \E k \in 0 .. RandSteps - 1 :
       LET result == getBestProviderForModel(priceDataReady, providers, modelname, k)
           parts == partitionCandidatesByCost(priceDataReady, matches')
       IN /\ zeroCost' = parts.zeroCost
          /\ paid' = parts.paid
          /\ selectedCandidate' = result.chosen
          /\ selPc' = IF result.threw THEN "threw" ELSE "done"
  /\ UNCHANGED <<priceDataReady, providers, modelname, execVars, adminVars>>

NextRoute == RouteRequest

SpecRoute == InitRoute /\ [][NextRoute]_vars

\* C30: with the pricing source initialized, the routing decision for a
\* resolved candidate list answers 404 exactly when the list is empty and
\* otherwise yields a candidate of the list; it never answers 500 or 503 and
\* never throws.
C30_Only404 ==
  (resolvePc = "done" /\ priceDataReady) =>
    /\ selPc = "done"
    /\ selectedCandidate = None <=> matches = <<>>
    /\ selectedCandidate \subseteq Range(matches)
    /\ \A k \in 0 .. RandSteps - 1 :
         LET result == routeCandidates(priceDataReady, matches, k) IN
         /\ ~result.threw
         /\ result.status \in {200, 404}
         /\ result.status = 404 <=> matches = <<>>
         /\ result.status = 200 =>
              result.chosen # None /\ result.chosen \subseteq Range(matches)
         /\ result = getBestProviderForModel(priceDataReady, providers, modelname, k)

\* two providers serve the requested model, both paid, and the cheaper one,
\* second in the catalog, is chosen
C30_Witness ==
  /\ resolvePc = "done"
  /\ priceDataReady
  /\ Len(matches) = 2
  /\ zeroCost = <<>>
  /\ ~BothCosts(matches[1])
  /\ BothCosts(matches[2])
  /\ selectedCandidate = Some(matches[2])

(* ------------------------- claims C31 .. C40 -------------------------- *)

C32_DrawInRange ==
  (selPc = "done" /\ zeroCost # <<>>) =>
    /\ selectedCandidate # None
    /\ selectedCandidate \subseteq Range(zeroCost)
    /\ \A k \in 0 .. RandSteps - 1 :
         ((k * Len(zeroCost)) \div RandSteps) \in 0 .. Len(zeroCost) - 1
    /\ \A i \in DOMAIN zeroCost :
         \E k \in 0 .. RandSteps - 1 : randomSelect(zeroCost, k) = zeroCost[i]

\* the second of two zero-cost candidates is drawn
C32_Witness ==
  /\ selPc = "done"
  /\ Len(zeroCost) = 2
  /\ selectedCandidate = Some(zeroCost[2])

\* C33: a streaming request with n > 1 that reaches the backend is answered
\* 200 with an event stream, starts one backend stream, every chunk it writes
\* has index 0, and it is dispatched exactly as the same request with n = 1.
C33_StreamIgnoresN ==
  \A r \in Req :
    (req[r].body.stream /\ req[r].body.n > 1 /\ req[r].calls # <<>>) =>
      /\ Len(req[r].calls) = 1
      /\ res[r].statusCode = 200
      /\ res[r].json = None
      /\ \A i \in DOMAIN res[r].written :
           res[r].written[i].kind \in {"role", "content", "final"}
             => res[r].written[i].index = 0
      /\ LET asked == dispatch(build, req[r], freshResponse)
             one == dispatch(build, [req[r] EXCEPT !.body.n = 1], freshResponse)
         IN asked.res = one.res /\ asked.req.calls = one.req.calls

\* a stream asked with n = 2 has run to its end: role, content, final, [DONE]
C33_Witness ==
  /\ req[1].body.stream
  /\ req[1].body.n = 2
  /\ req[1].pc = "done"
  /\ Len(req[1].calls) = 1
  /\ Len(res[1].written) >= 4
  /\ res[1].ended

\* C34: the handle getOrCreateProvider returns for a provider was constructed
\* for that provider's (type, id) pair.
C34_DistinctEntries ==
  \A r \in Req :
    req[r].pc = "returned" =>
      Val(req[r].instance).builtFor
        = << Val(req[r].chosenProvider).type, Val(req[r].chosenProvider).id >>

\* C35: a construction that fails leaves the cache as it was, and a later
\* call for the same key that finds no entry goes to the factory again.
C35_FailureNotCached ==
  [][\A r \in Req :
       (req[r].pc # "rejected" /\ req'[r].pc = "rejected") =>
         /\ providerInstances' = providerInstances
         /\ (Val(req'[r].key) \notin DOMAIN providerInstances =>
               getOrCreateBegin(build', providerInstances', serial',
                                Val(req'[r].chosenProvider)).outcome # "hit")]_vars

\* the token exchange of the copilot provider failed and no entry was stored
C35_Witness ==
  \E r \in Req :
    /\ req[r].pc = "rejected"
    /\ Val(req[r].chosenProvider).type = "copilot"
    /\ req[r].calledFactory
    /\ Val(req[r].key) \notin DOMAIN providerInstances

\* C36: a request is answered at most once; when the selection found no
\* provider the error response is sent, execute is not called and no backend
\* call is made; when it found one, execute is called exactly once.
C36_OneResponse ==
  \A r \in Req :
    req[r].pc # "idle" =>
      /\ res[r].endCount <= 1
      /\ req[r].chosenProvider = None =>
           /\ res[r].endCount = 1
           /\ res[r].statusCode >= 400
           /\ req[r].executions = 0
           /\ req[r].calls = <<>>
      /\ req[r].chosenProvider # None => req[r].executions = 1

\* C37: whenever a request gets the handle of a copilot provider to execute
\* with, the bearer token bound into the handle has not expired.
C37_TokenNotExpired ==
  \A r \in Req :
    (req[r].pc = "returned" /\ Val(req[r].chosenProvider).type = "copilot") =>
      Val(tokenCall[r].usedAt) < Val(req[r].instance).apiKey.exp

\* the token cached under the OAuth token of the provider slot r called for
CachedMeta(r) ==
  tokenCacheGet(tokenCache, Val(Val(req'[r].chosenProvider).oauthToken))

\* C38: getBearerToken fetches exactly when the cached token is missing,
\* expired or within five minutes of its expiry; the token it returns without
\* a fetch is the cached one, more than five minutes from expiry, and the
\* token it returns after a fetch is the one just fetched, stored in the cache
\* under the provider's OAuth token.
C38_NeverStale ==
  [][\A r \in Req :
       /\ (tokenCall[r].pc = "idle" /\ tokenCall'[r].pc = "fetching") =>
            \A meta \in CachedMeta(r) : now >= meta.expiresAt - bufferDuration
       /\ (tokenCall[r].pc = "idle" /\ tokenCall'[r].pc = "returned"
             /\ tokenCall'[r].returned # None) =>
            /\ ~tokenCall'[r].fetched
            /\ tokenCall'[r].returned = CachedMeta(r)
            /\ now < Val(tokenCall'[r].returned).expiresAt - bufferDuration
            /\ tokenCache' = tokenCache
       /\ (tokenCall[r].pc = "fetching" /\ tokenCall'[r].pc = "returned") =>
            /\ tokenCall'[r].fetched
            /\ Val(tokenCall'[r].returned).token.issuedAt = now
            /\ tokenCacheGet(tokenCache', Val(Val(req'[r].chosenProvider).oauthToken))
                 = tokenCall'[r].returned]_vars

\* a token fetched earlier is returned from the cache, without a fetch, to
\* build a new handle
C38_Witness ==
  /\ tokenCall[1].pc = "returned"
  /\ ~tokenCall[1].fetched
  /\ tokenCall[1].returned # None
  /\ now > Val(tokenCall[1].returned).token.issuedAt

(* ------------ the configuration store: this.config, db.data, file -------- *)

\* configuration calls in flight at once
MaxOps == 2

\* Object.assign(target, source): the fields source has overwrite the
\* target's, the fields it lacks stay
objectAssign(target, source) ==
  [f \in DOMAIN target |-> IF source[f] = None THEN target[f] ELSE source[f]]

\* an AppConfig: providers is required, logLevel is optional
appConfig(catalog, logLevel) ==
  [providers |-> Some(catalog), logLevel |-> logLevel]

\* the configurations updateConfig is called with
AppConfigs ==
  {appConfig(c, l) : c \in Configs, l \in {None, Some("debug")}}

\* a call in flight: its argument, the text handed to the writer or read
\* from the file, and whether it has run with no other call in flight
configCall(kind, arg, text, stage, alone) ==
  [kind |-> kind, arg |-> arg, text |-> text, stage |-> stage, alone |-> alone]

\* another call starts while these are in flight
overlapped(ops) == [i \in DOMAIN ops |-> [ops[i] EXCEPT !.alone = FALSE]]

\* the sequence without its i-th element
removeAt(seq, i) == SubSeq(seq, 1, i - 1) \o SubSeq(seq, i + 1, Len(seq))

\* the record of a completed call, appended to the two last completed calls
completed(log, op) ==
  LET all == Append(log, [kind |-> op.kind, arg |-> op.arg, alone |-> op.alone])
  IN IF Len(all) <= 2 THEN all ELSE SubSeq(all, Len(all) - 1, Len(all))

\* after initialize(): the file exists, db.data was read from it and
\* this.config is db.data
InitStore ==
  /\ priceDataReady = TRUE
  /\ \E c \in AppConfigs :
       /\ thisConfig = c
       /\ dbObj = c
       /\ file = c
       /\ providers = Val(c.providers)
  /\ dbData = providers
  /\ cfgOps = <<>>
  /\ cfgLog = <<>>
  /\ cfgPc = cfgIdle
  /\ catalogRead = <<>>
  /\ configModels = <<>>
  /\ modelsResponse = None
  /\ TokenIdle
  /\ SelIdle
  /\ ResolveIdle
  /\ ExecIdle

\* updateConfig(newConfig) up to `await this.db.write()`: this.config is
\* the argument, db.data is merged with it, and write() serialises db.data
\* for the file's writer
updateConfig(newConfig) ==
  /\ Len(cfgOps) < MaxOps
  /\ thisConfig' = newConfig
  /\ providers' = Val(newConfig.providers)
  /\ dbObj' = objectAssign(dbObj, newConfig)
  /\ cfgOps' = Append(overlapped(cfgOps),
                      configCall("update", Some(newConfig), Some(dbObj'),
                                 "writing", cfgOps = <<>>))
  /\ UNCHANGED <<file, cfgLog, dbData, cfgPc, catalogRead, configModels,
                 modelsResponse, tokenVars, priceDataReady,
                 selVars, resolveVars, execVars>>

\* the writer finished the i-th call's write (writes finish in call order,
\* each replacing the file atomically); updateConfig resumes and emits
dbWrite(i) ==
  /\ i \in DOMAIN cfgOps
  /\ cfgOps[i].kind = "update"
  /\ \A j \in 1 .. (i - 1) : cfgOps[j].kind # "update"
  /\ file' = Val(cfgOps[i].text)
  /\ dbData' = Val(file'.providers)
  /\ providerInstances' = emitConfigUpdated(providerInstances)
  /\ cfgOps' = removeAt(cfgOps, i)
  /\ cfgLog' = completed(cfgLog, cfgOps[i])
  /\ UNCHANGED <<thisConfig, dbObj, cfgPc, catalogRead, configModels,
                 modelsResponse, tokenVars, priceDataReady, providers,
                 selVars, resolveVars, build, serial, req, res>>

\* reloadConfig() up to `await this.db.read()`
reloadConfig ==
  /\ Len(cfgOps) < MaxOps
  /\ cfgOps' = Append(overlapped(cfgOps),
                      configCall("reload", None, None, "reading", cfgOps = <<>>))
  /\ UNCHANGED <<thisConfig, dbObj, file, cfgLog, dbData, cfgPc, catalogRead,
                 configModels, modelsResponse, tokenVars, priceDataReady,
                 providers, selVars, resolveVars, execVars>>

\* the adapter reads the file for the i-th call
adapterRead(i) ==
  /\ i \in DOMAIN cfgOps
  /\ cfgOps[i].kind = "reload"
  /\ cfgOps[i].stage = "reading"
  /\ cfgOps' = [cfgOps EXCEPT ![i].text = Some(file), ![i].stage = "read"]
  /\ UNCHANGED <<thisConfig, dbObj, file, cfgLog, dbData, cfgPc, catalogRead,
                 configModels, modelsResponse, tokenVars, priceDataReady,
                 providers, selVars, resolveVars, execVars>>

\* db.read() resolves for the i-th call: db.data is what the adapter read;
\* reloadConfig resumes, this.config is db.data, and it emits
dbRead(i) ==
  /\ i \in DOMAIN cfgOps
  /\ cfgOps[i].kind = "reload"
  /\ cfgOps[i].stage = "read"
  /\ dbObj' = Val(cfgOps[i].text)
  /\ thisConfig' = dbObj'
  /\ providers' = Val(thisConfig'.providers)
  /\ providerInstances' = emitConfigUpdated(providerInstances)
  /\ cfgOps' = removeAt(cfgOps, i)
  /\ cfgLog' = completed(cfgLog, cfgOps[i])
  /\ UNCHANGED <<file, dbData, cfgPc, catalogRead, configModels,
                 modelsResponse, tokenVars, priceDataReady,
                 selVars, resolveVars, build, serial, req, res>>

NextStore ==
  \/ \E newConfig \in AppConfigs : updateConfig(newConfig)
  \/ \E i \in 1 .. MaxOps : dbWrite(i)
  \/ reloadConfig
  \/ \E i \in 1 .. MaxOps : adapterRead(i)
  \/ \E i \in 1 .. MaxOps : dbRead(i)

SpecStore == InitStore /\ [][NextStore]_vars

\* C39: once every updateConfig and reloadConfig call has completed, the
\* configuration in memory (getConfig()) equals the configuration the file
\* holds.
C39_MemoryEqualsStorage ==
  cfgOps = <<>> => thisConfig = file

\* C40: after updateConfig(c) and then reloadConfig(), each run to completion
\* with no other call in flight or in between, getConfig() is c.
C40_ReloadGivesBackUpdate ==
  (/\ cfgOps = <<>>
   /\ Len(cfgLog) = 2
   /\ cfgLog[1].kind = "update" /\ cfgLog[1].alone
   /\ cfgLog[2].kind = "reload" /\ cfgLog[2].alone)
    => thisConfig = Val(cfgLog[1].arg)

====
